---- MODULE Spec2Model ----
(***************************************************************************)
(* Model of terraform-provider-jellyfin: the Jellyfin REST client          *)
(* (internal/client) and the api_key resource's create-then-locate         *)
(* protocol (internal/provider/api_key_resource.go), run against a         *)
(* Jellyfin server holding an ordered list of API keys.                    *)
(*                                                                         *)
(* Go pointers are modelled as sequences of length 0 (nil) or 1 (&v).      *)
(* Strings that the code inspects character by character (the endpoint)    *)
(* are sequences of one-character strings; opaque strings are TLA+ strings.*)
(***************************************************************************)
EXTENDS Integers, Sequences, FiniteSets, TLC

\* ------------------------------------------------------------------ bounds
\* The server holds at most MaxKeys keys and mints at most MaxMinted tokens.
MaxKeys == 2
MaxMinted == 2

\* Longest string the escaping functions are run on.
MaxLen == 3

\* Caller-supplied application names, as sequences of characters.
AppNames == { <<"a", "p", "p">>, <<"m", "y", " ", "&">> }
\* Managed api_key resources (one Create call each).
Resources == {"r1", "r2"}
\* Access tokens the authentication endpoint may return ("" = none).
AuthTokens == {"", "tokA"}
\* Endpoints handed to the constructors; "^" stands for a byte that makes
\* net/url reject the URL (a control character).
Endpoints == { <<"h">>, <<"h", "/">>, <<"h", "^">> }
\* HTTP status codes the server may answer with.
Statuses == {200, 201, 204, 401, 500}
\* Response bodies: "json" is the JSON document the endpoint is specified to
\* return; the other is plain text that does not parse as JSON.
Bodies == {"json", "Unauthorized"}
\* Access tokens and creation dates the server gives to the keys it mints.
KeyTokens == << <<"k", "1">>, <<"k", "2">>, <<"k", "3">>, <<"k", "4">> >>
KeyDates == << <<"d", "1">>, <<"d", "2">>, <<"d", "3">>, <<"d", "4">> >>

\* ------------------------------------------------------------------- state
VARIABLES
    keys,      \* server: the ordered key list served by GET /Auth/Keys
    minted,    \* server: number of keys minted so far
    client,    \* the provider's *client.Client (nil before construction)
    authOut,   \* outcome of the last NewClient / NewClientWithAuth call
    last,      \* outcome of the last client operation, with the requests sent
    rpc,       \* per resource: position inside APIKeyResource.Create
    rplan,     \* per resource: app_name of the plan
    rsnap,     \* per resource: existingIDs and the snapshot's tokens
    rmine,     \* per resource: token minted for this call's CreateKey request
    rout,      \* per resource: state written, diagnostics, requests sent
    rinterf,   \* per resource: did someone else change the server meanwhile
    rlast,     \* per resource: outcome of the last ImportState / Read call
    ds,        \* outcome of the last APIKeyDataSource.Read call
    prov       \* outcome of JellyfinProvider.Configure

vars == <<keys, minted, client, authOut, last, rpc, rplan, rsnap, rmine, rout, rinterf,
          rlast, ds, prov>>
resVars == <<rpc, rplan, rsnap, rmine, rout, rinterf>>
provVars == <<rlast, ds, prov>>

\* ------------------------------------------------------- strings and errors
Last(s) == s[Len(s)]
Range(s) == {s[i] : i \in 1..Len(s)}

\* TrimSuffix removing every trailing slash, as strings.TrimRight does.
TrimSuffix_All(s) ==
    LET n == CHOOSE n \in 0..Len(s) :
                 /\ \A i \in (n + 1)..Len(s) : s[i] = "/"
                 /\ n = 0 \/ s[n] # "/"
    IN  SubSeq(s, 1, n)

\* strings.TrimSuffix(s, "/")
TrimSuffix(s) == IF Len(s) > 0 /\ Last(s) = "/" THEN SubSeq(s, 1, Len(s) - 1) ELSE s

\* url.Parse as used by http.NewRequestWithContext: fails on an invalid byte.
ValidURL(s) == "^" \notin Range(s)

\* An error value: its kind, and the status code and body text it carries.
Err(kind, status, body) == <<[kind |-> kind, status |-> status, body |-> body]>>
NoErr == <<>>

\* client.APIKey as json.Decode fills it from one item of the key list.
APIKey(k) == [AccessToken |-> k.AccessToken, AppName |-> k.AppName,
              DateCreated |-> k.DateCreated]
\* APIKeyQueryResult.Items decoded from the JSON body of GET /Auth/Keys.
DecodeItems(ks) == [i \in 1..Len(ks) |-> APIKey(ks[i])]

\* Environment of one HTTP exchange: does the transport deliver it, and what
\* does the server answer.
FailEnv == [transport |-> "fail", status |-> 0, body |-> ""]
Envs == {FailEnv} \cup
        [transport : {"ok"}, status : Statuses, body : Bodies]

\* The exchanges a resource's Create is run against: a transport failure, the
\* two success statuses, a 200 whose body does not decode, and an API failure.
CreateEnvs == {FailEnv,
               [transport |-> "ok", status |-> 200, body |-> "json"],
               [transport |-> "ok", status |-> 204, body |-> "json"],
               [transport |-> "ok", status |-> 200, body |-> "Unauthorized"],
               [transport |-> "ok", status |-> 401, body |-> "Unauthorized"]}

\* ------------------------------------------------------------ constructors
\* NewClient(endpoint, accessToken)
NewClient(endpoint, accessToken) ==
    <<[endpoint |-> TrimSuffix(endpoint), accessToken |-> accessToken]>>

\* The client identification NewClientWithAuthAndConfig(..., config) may be
\* given: nil, or a ClientConfig whose fields are each empty or set.
ClientConfigs ==
    {<<>>} \cup
    {<<cfg>> : cfg \in [ClientName : {"", "MyClient"}, DeviceName : {"", "MyDevice"},
                        DeviceID : {"", "my-id"}, ClientVersion : {"", "2.0.0"}]}

DefaultClientName == "Terraform"
DefaultDeviceName == "Terraform Provider"
DefaultDeviceID == "terraform-provider-jellyfin"
DefaultClientVersion == "1.0.0"

\* AuthHeader taking every field of a present config, empty or not.
AuthHeader_NoEmptyCheck(config) ==
    IF config = <<>>
    THEN [Client |-> DefaultClientName, Device |-> DefaultDeviceName,
          DeviceId |-> DefaultDeviceID, Version |-> DefaultClientVersion]
    ELSE [Client |-> config[1].ClientName, Device |-> config[1].DeviceName,
          DeviceId |-> config[1].DeviceID, Version |-> config[1].ClientVersion]

\* The fields of the header MediaBrowser Client=.., Device=.., DeviceId=..,
\* Version=..: the defaults, each replaced by a non-empty field of config.
AuthHeader(config) ==
    LET clientName == IF config # <<>> /\ config[1].ClientName # ""
                      THEN config[1].ClientName ELSE DefaultClientName
        deviceName == IF config # <<>> /\ config[1].DeviceName # ""
                      THEN config[1].DeviceName ELSE DefaultDeviceName
        deviceID == IF config # <<>> /\ config[1].DeviceID # ""
                    THEN config[1].DeviceID ELSE DefaultDeviceID
        clientVersion == IF config # <<>> /\ config[1].ClientVersion # ""
                         THEN config[1].ClientVersion ELSE DefaultClientVersion
    IN  [Client |-> clientName, Device |-> deviceName,
         DeviceId |-> deviceID, Version |-> clientVersion]

\* The authentication request NewClientWithAuthAndConfig builds.
AuthRequest(endpoint, username, password, config) ==
    [method |-> "POST", endpoint |-> endpoint, path |-> "/Users/AuthenticateByName",
     arg |-> <<username, password>>, auth |-> <<"Client", AuthHeader(config)>>]

\* NewClientWithAuthAndConfig without the check for an empty access token.
NewClientWithAuthAndConfig_NoEmptyCheck(endpoint0, username, password, config, e, tok) ==
    LET endpoint == TrimSuffix(endpoint0)
        req == AuthRequest(endpoint, username, password, config)
    IN  IF ~ValidURL(endpoint)
        THEN [client |-> <<>>, err |-> Err("create auth request", 0, ""), reqs |-> <<>>]
        ELSE IF e.transport = "fail"
        THEN [client |-> <<>>, err |-> Err("authenticate", 0, ""), reqs |-> <<req>>]
        ELSE IF e.status # 200
        THEN [client |-> <<>>, err |-> Err("authentication failed", e.status, e.body),
              reqs |-> <<req>>]
        ELSE IF e.body # "json"
        THEN [client |-> <<>>, err |-> Err("decode auth response", 0, ""), reqs |-> <<req>>]
        ELSE [client |-> <<[endpoint |-> endpoint, accessToken |-> tok]>>,
              err |-> NoErr, reqs |-> <<req>>]

\* NewClientWithAuthAndConfig(ctx, endpoint, username, password, config):
\* e is the exchange's environment, tok the AccessToken of a JSON answer.
NewClientWithAuthAndConfig(endpoint0, username, password, config, e, tok) ==
    LET endpoint == TrimSuffix(endpoint0)
        req == AuthRequest(endpoint, username, password, config)
    IN  IF ~ValidURL(endpoint)
        THEN [client |-> <<>>, err |-> Err("create auth request", 0, ""), reqs |-> <<>>]
        ELSE IF e.transport = "fail"
        THEN [client |-> <<>>, err |-> Err("authenticate", 0, ""), reqs |-> <<req>>]
        ELSE IF e.status # 200
        THEN [client |-> <<>>, err |-> Err("authentication failed", e.status, e.body),
              reqs |-> <<req>>]
        ELSE IF e.body # "json"
        THEN [client |-> <<>>, err |-> Err("decode auth response", 0, ""), reqs |-> <<req>>]
        ELSE IF tok = ""
        THEN [client |-> <<>>, err |-> Err("no access token", 0, ""), reqs |-> <<req>>]
        ELSE [client |-> <<[endpoint |-> endpoint, accessToken |-> tok]>>,
              err |-> NoErr, reqs |-> <<req>>]

\* NewClientWithAuth(ctx, endpoint, username, password)
NewClientWithAuth(endpoint0, username, password, e, tok) ==
    NewClientWithAuthAndConfig(endpoint0, username, password, <<>>, e, tok)

\* --------------------------------------------------------- client requests
\* doRequest that leaves the token out of the Authorization header.
doRequest_NoToken(c, method, path, arg, e) ==
    LET req == [method |-> method, endpoint |-> c.endpoint, path |-> path,
                arg |-> arg, auth |-> <<"Token", "">>]
    IN  IF ~ValidURL(c.endpoint)
        THEN [ok |-> FALSE, err |-> Err("create request", 0, ""), reqs |-> <<>>]
        ELSE IF e.transport = "fail"
        THEN [ok |-> FALSE, err |-> Err("execute request", 0, ""), reqs |-> <<req>>]
        ELSE [ok |-> TRUE, err |-> NoErr, reqs |-> <<req>>]

\* doRequest that goes on when the HTTP client returned an error.
doRequest_NoErrorCheck(c, method, path, arg, e) ==
    LET req == [method |-> method, endpoint |-> c.endpoint, path |-> path,
                arg |-> arg, auth |-> <<"Token", c.accessToken>>]
    IN  IF ~ValidURL(c.endpoint)
        THEN [ok |-> FALSE, err |-> Err("create request", 0, ""), reqs |-> <<>>]
        ELSE [ok |-> TRUE, err |-> NoErr, reqs |-> <<req>>]

\* doRequest that sends the request a second time when the transport fails.
doRequest_Retry(c, method, path, arg, e) ==
    LET req == [method |-> method, endpoint |-> c.endpoint, path |-> path,
                arg |-> arg, auth |-> <<"Token", c.accessToken>>]
    IN  IF ~ValidURL(c.endpoint)
        THEN [ok |-> FALSE, err |-> Err("create request", 0, ""), reqs |-> <<>>]
        ELSE IF e.transport = "fail"
        THEN [ok |-> FALSE, err |-> Err("execute request", 0, ""), reqs |-> <<req, req>>]
        ELSE [ok |-> TRUE, err |-> NoErr, reqs |-> <<req>>]

\* Client.doRequest(ctx, method, path): at most one call of httpClient.Do.
doRequest(c, method, path, arg, e) ==
    LET req == [method |-> method, endpoint |-> c.endpoint, path |-> path,
                arg |-> arg, auth |-> <<"Token", c.accessToken>>]
    IN  IF ~ValidURL(c.endpoint)
        THEN [ok |-> FALSE, err |-> Err("create request", 0, ""), reqs |-> <<>>]
        ELSE IF e.transport = "fail"
        THEN [ok |-> FALSE, err |-> Err("execute request", 0, ""), reqs |-> <<req>>]
        ELSE [ok |-> TRUE, err |-> NoErr, reqs |-> <<req>>]

\* Client.GetKeys(ctx); ks is the server's key list when the request arrives.
GetKeys(c, e, ks) ==
    LET d == doRequest(c, "GET", "/Auth/Keys", <<>>, e)
    IN  IF ~d.ok
        THEN [result |-> <<>>, err |-> d.err, reqs |-> d.reqs]
        ELSE IF e.status # 200
        THEN [result |-> <<>>, err |-> Err("API request failed", e.status, e.body),
              reqs |-> d.reqs]
        ELSE IF e.body # "json"
        THEN [result |-> <<>>, err |-> Err("decode response", 0, ""), reqs |-> d.reqs]
        ELSE [result |-> <<[Items |-> DecodeItems(ks)]>>, err |-> NoErr, reqs |-> d.reqs]

\* FirstIndex with the loop keeping the last match instead of returning at the first.
FirstIndex_Last(items, field, value) ==
    LET hits == {i \in 1..Len(items) : items[i][field] = value}
    IN  IF hits = {} THEN 0 ELSE CHOOSE i \in hits : \A j \in hits : i >= j

\* Index of the first item of items with items[i][field] = value, 0 if none:
\* the loop of GetKey and FindKeyByAppName.
FirstIndex(items, field, value) ==
    LET hits == {i \in 1..Len(items) : items[i][field] = value}
    IN  IF hits = {} THEN 0 ELSE CHOOSE i \in hits : \A j \in hits : i <= j

\* GetKey that reports a missing key as an error.
GetKey_NotFoundIsError(c, accessToken, e, ks) ==
    LET g == GetKeys(c, e, ks)
    IN  IF g.err # NoErr
        THEN [key |-> <<>>, err |-> g.err, reqs |-> g.reqs]
        ELSE LET items == g.result[1].Items
                 i == FirstIndex(items, "AccessToken", accessToken)
             IN  [key |-> IF i = 0 THEN <<>> ELSE <<items[i]>>,
                  err |-> IF i = 0 THEN Err("not found", 0, "") ELSE NoErr,
                  reqs |-> g.reqs]

\* Client.GetKey(ctx, accessToken)
GetKey(c, accessToken, e, ks) ==
    LET g == GetKeys(c, e, ks)
    IN  IF g.err # NoErr
        THEN [key |-> <<>>, err |-> g.err, reqs |-> g.reqs]
        ELSE LET items == g.result[1].Items
                 i == FirstIndex(items, "AccessToken", accessToken)
             IN  [key |-> IF i = 0 THEN <<>> ELSE <<items[i]>>,
                  err |-> NoErr, reqs |-> g.reqs]

\* FindKeyByAppName with the scan starting at the second item.
FindKeyByAppName_SkipsFirst(c, appName, e, ks) ==
    LET g == GetKeys(c, e, ks)
    IN  IF g.err # NoErr
        THEN [key |-> <<>>, err |-> g.err, reqs |-> g.reqs]
        ELSE LET items == g.result[1].Items
                 hits == {i \in 2..Len(items) : items[i].AppName = appName}
             IN  [key |-> IF hits = {} THEN <<>>
                          ELSE <<items[CHOOSE i \in hits : \A k \in hits : i <= k]>>,
                  err |-> NoErr, reqs |-> g.reqs]

\* Client.FindKeyByAppName(ctx, appName)
FindKeyByAppName(c, appName, e, ks) ==
    LET g == GetKeys(c, e, ks)
    IN  IF g.err # NoErr
        THEN [key |-> <<>>, err |-> g.err, reqs |-> g.reqs]
        ELSE LET items == g.result[1].Items
                 i == FirstIndex(items, "AppName", appName)
             IN  [key |-> IF i = 0 THEN <<>> ELSE <<items[i]>>,
                  err |-> NoErr, reqs |-> g.reqs]

\* ------------------------------------------------------- percent-encoding
\* The bytes net/url may have to escape, with their two hexadecimal digits;
\* every other character of the model is a letter or a digit.
HexOf == [c \in {" ", "%", "&", "+", "/", "="} |->
             CASE c = " " -> <<"2", "0">>
               [] c = "%" -> <<"2", "5">>
               [] c = "&" -> <<"2", "6">>
               [] c = "+" -> <<"2", "B">>
               [] c = "/" -> <<"2", "F">>
               [] c = "=" -> <<"3", "D">>]
HexDigits == {"0", "2", "3", "5", "6", "B", "D", "F"}

\* url.shouldEscape(c, mode) for mode encodeQueryComponent ("query") and
\* encodePathSegment ("path").
shouldEscape(c, mode) ==
    IF c \notin DOMAIN HexOf THEN FALSE
    ELSE IF c \in {"&", "+", "=", "/"}
         THEN IF mode = "path" THEN c = "/" ELSE TRUE
         ELSE TRUE

\* url.escape(s, mode): a space becomes "+" in a query component, an escaped
\* byte becomes "%XX", every other byte is kept.
RECURSIVE escape(_, _)
escape(s, mode) ==
    IF s = <<>> THEN <<>>
    ELSE LET c == Head(s)
             out == IF c = " " /\ mode = "query" THEN <<"+">>
                    ELSE IF shouldEscape(c, mode) THEN <<"%">> \o HexOf[c]
                    ELSE <<c>>
         IN  out \o escape(Tail(s), mode)

\* QueryEscape that inserts the value as it is.
QueryEscape_Raw(s) == s

\* url.QueryEscape(s) and url.PathEscape(s)
QueryEscape(s) == escape(s, "query")
PathEscape(s) == escape(s, "path")

\* The first pass of url.unescape: every "%" is followed by two hex digits.
RECURSIVE validEscapes(_)
validEscapes(s) ==
    IF s = <<>> THEN TRUE
    ELSE IF Head(s) = "%"
         THEN /\ Len(s) >= 3 /\ s[2] \in HexDigits /\ s[3] \in HexDigits
              /\ validEscapes(SubSeq(s, 4, Len(s)))
         ELSE validEscapes(Tail(s))

\* The byte written as %XX ("?" for a byte outside the model's alphabet).
Unhex(h) == IF \E c \in DOMAIN HexOf : HexOf[c] = h
            THEN CHOOSE c \in DOMAIN HexOf : HexOf[c] = h ELSE "?"

\* The second pass of url.unescape on a string with valid escapes.
RECURSIVE unescape(_, _)
unescape(s, mode) ==
    IF s = <<>> THEN <<>>
    ELSE IF Head(s) = "%"
         THEN <<Unhex(<<s[2], s[3]>>)>> \o unescape(SubSeq(s, 4, Len(s)), mode)
         ELSE IF Head(s) = "+" /\ mode = "query"
         THEN <<" ">> \o unescape(Tail(s), mode)
         ELSE <<Head(s)>> \o unescape(Tail(s), mode)

\* The part of s before its first c (all of s when c does not occur).
RECURSIVE Before(_, _)
Before(s, c) ==
    IF s = <<>> \/ Head(s) = c THEN <<>> ELSE <<Head(s)>> \o Before(Tail(s), c)

\* r.URL.Query().Get("app") on the server for the raw query "app=" + arg: the
\* query ends at the first "&", and a pair that does not unescape is dropped.
ServerQueryApp(arg) ==
    LET v == Before(arg, "&")
    IN  IF validEscapes(v) THEN unescape(v, "query") ELSE <<>>

\* The {key} segment the server's route DELETE /Auth/Keys/{key} sees for the
\* raw path "/Auth/Keys/" + arg: nil when the path has another segment or
\* does not unescape.
ServerPathToken(arg) ==
    IF "/" \in Range(arg) \/ ~validEscapes(arg) THEN <<>>
    ELSE <<unescape(arg, "path")>>

\* CreateKey that accepts every 2xx status.
CreateKey_Any2xx(c, appName, e) ==
    LET d == doRequest(c, "POST", "/Auth/Keys?app=", QueryEscape(appName), e)
    IN  IF ~d.ok
        THEN [err |-> d.err, reqs |-> d.reqs]
        ELSE IF e.status < 200 \/ e.status > 299
        THEN [err |-> Err("API request failed", e.status, e.body), reqs |-> d.reqs]
        ELSE [err |-> NoErr, reqs |-> d.reqs]

\* Client.CreateKey(ctx, appName)
CreateKey(c, appName, e) ==
    LET d == doRequest(c, "POST", "/Auth/Keys?app=", QueryEscape(appName), e)
    IN  IF ~d.ok
        THEN [err |-> d.err, reqs |-> d.reqs]
        ELSE IF e.status # 204 /\ e.status # 200
        THEN [err |-> Err("API request failed", e.status, e.body), reqs |-> d.reqs]
        ELSE [err |-> NoErr, reqs |-> d.reqs]

\* Client.DeleteKey(ctx, accessToken)
DeleteKey(c, accessToken, e) ==
    LET d == doRequest(c, "DELETE", "/Auth/Keys/", PathEscape(accessToken), e)
    IN  IF ~d.ok
        THEN [err |-> d.err, reqs |-> d.reqs]
        ELSE IF e.status # 204 /\ e.status # 200
        THEN [err |-> Err("API request failed", e.status, e.body), reqs |-> d.reqs]
        ELSE [err |-> NoErr, reqs |-> d.reqs]

\* ------------------------------------------------------------------ server
\* The server carries a request out exactly when it answers 200 or 204.
Served(reqs, e) == Len(reqs) = 1 /\ e.transport = "ok" /\ e.status \in {200, 204}

\* The key the server mints for POST /Auth/Keys?app=<name>.
NewKey(n, name) == [AccessToken |-> KeyTokens[n], AppName |-> name,
                    DateCreated |-> KeyDates[n]]

\* The list after the server stored key k at position pos.
InsertAt(ks, pos, k) == SubSeq(ks, 1, pos - 1) \o <<k>> \o SubSeq(ks, pos, Len(ks))

\* The list after DELETE /Auth/Keys/<token>.
Remove(ks, tok) == SelectSeq(ks, LAMBDA k : k.AccessToken # tok)

\* The list after the server handled DELETE with raw path segment arg.
ServerDelete(ks, arg) ==
    IF ServerPathToken(arg) = <<>> THEN ks ELSE Remove(ks, ServerPathToken(arg)[1])

CanMint == Len(keys) < MaxKeys /\ minted < MaxMinted

Tokens(ks) == {ks[i].AccessToken : i \in 1..Len(ks)}


\* ------------------------------------------------------------ initial state
NoCall == [op |-> "none", arg |-> <<>>, key |-> <<>>, result |-> <<>>, err |-> NoErr,
           reqs |-> <<>>, env |-> FailEnv, before |-> <<>>]
NoAuth == [op |-> "none", endpoint |-> <<>>, config |-> <<>>, tok |-> "",
           client |-> <<>>, err |-> NoErr, reqs |-> <<>>, env |-> FailEnv]
NoOut == [state |-> <<>>, diag |-> <<>>, reqs |-> <<>>, newItems |-> <<>>,
          errs |-> <<>>]
NoSnap == [existingIDs |-> {}, items |-> <<>>]
NoRead == [op |-> "none", prior |-> <<>>, diag |-> <<>>, reqs |-> <<>>,
           env |-> FailEnv, before |-> <<>>]
NoData == [op |-> "none", config |-> <<>>, state |-> <<>>, diag |-> <<>>,
           reqs |-> <<>>, env |-> FailEnv, before |-> <<>>]
NoProv == [op |-> "none", config |-> <<>>, environ |-> <<>>, env |-> FailEnv,
           tok |-> "", diag |-> <<>>, reqs |-> <<>>, ResourceData |-> <<>>,
           DataSourceData |-> <<>>]

InitResources ==
    /\ rpc = [r \in Resources |-> "idle"]
    /\ rplan = [r \in Resources |-> <<>>]
    /\ rsnap = [r \in Resources |-> NoSnap]
    /\ rmine = [r \in Resources |-> <<>>]
    /\ rout = [r \in Resources |-> NoOut]
    /\ rinterf = [r \in Resources |-> FALSE]
    /\ rlast = [r \in Resources |-> NoRead]
    /\ ds = NoData
    /\ prov = NoProv

\* Before the provider is configured: an empty server and no client.
Init ==
    /\ keys = <<>>
    /\ minted = 0
    /\ client = <<>>
    /\ authOut = NoAuth
    /\ last = NoCall
    /\ InitResources

\* Every in-flight Create other than r's sees the server change under it.
Disturb(r) ==
    [q \in Resources |-> IF q # r /\ rpc[q] \in {"snap", "created"} THEN TRUE ELSE rinterf[q]]

\* ------------------------------------------------- actions: the constructors
DoNewClient(endpoint, tok) ==
    /\ client = <<>>
    /\ client' = NewClient(endpoint, tok)
    /\ authOut' = [op |-> "NewClient", endpoint |-> endpoint, config |-> <<>>,
                   tok |-> tok, client |-> client', err |-> NoErr, reqs |-> <<>>,
                   env |-> FailEnv]
    /\ UNCHANGED <<keys, minted, last, resVars, provVars>>

DoNewClientWithAuth(endpoint, e, tok) ==
    /\ client = <<>>
    /\ LET a == NewClientWithAuth(endpoint, "user", "pass", e, tok)
       IN  /\ client' = a.client
           /\ authOut' = [op |-> "NewClientWithAuth", endpoint |-> endpoint,
                          config |-> <<>>, tok |-> tok, client |-> a.client,
                          err |-> a.err, reqs |-> a.reqs, env |-> e]
    /\ UNCHANGED <<keys, minted, last, resVars, provVars>>

DoNewClientWithAuthAndConfig(endpoint, config, e, tok) ==
    /\ client = <<>>
    /\ LET a == NewClientWithAuthAndConfig(endpoint, "user", "pass", config, e, tok)
       IN  /\ client' = a.client
           /\ authOut' = [op |-> "NewClientWithAuthAndConfig", endpoint |-> endpoint,
                          config |-> config, tok |-> tok, client |-> a.client,
                          err |-> a.err, reqs |-> a.reqs, env |-> e]
    /\ UNCHANGED <<keys, minted, last, resVars, provVars>>

\* ------------------------------------------- actions: the client operations
\* GetKeys forgetting the client's token when the server answers 401.
DoGetKeys_DropsToken(e) ==
    /\ client # <<>>
    /\ LET g == GetKeys(client[1], e, keys)
       IN  last' = [op |-> "GetKeys", arg |-> <<>>, key |-> <<>>, result |-> g.result,
                    err |-> g.err, reqs |-> g.reqs, env |-> e, before |-> keys]
    /\ client' = IF e.status = 401 THEN <<[client[1] EXCEPT !.accessToken = ""]>>
                 ELSE client
    /\ UNCHANGED <<keys, minted, authOut, resVars, provVars>>

DoGetKeys(e) ==
    /\ client # <<>>
    /\ LET g == GetKeys(client[1], e, keys)
       IN  last' = [op |-> "GetKeys", arg |-> <<>>, key |-> <<>>, result |-> g.result,
                    err |-> g.err, reqs |-> g.reqs, env |-> e, before |-> keys]
    /\ UNCHANGED <<keys, minted, client, authOut, resVars, provVars>>

DoGetKey(accessToken, e) ==
    /\ client # <<>>
    /\ LET g == GetKey(client[1], accessToken, e, keys)
       IN  last' = [op |-> "GetKey", arg |-> accessToken, key |-> g.key, result |-> <<>>,
                    err |-> g.err, reqs |-> g.reqs, env |-> e, before |-> keys]
    /\ UNCHANGED <<keys, minted, client, authOut, resVars, provVars>>

DoFindKeyByAppName(appName, e) ==
    /\ client # <<>>
    /\ LET g == FindKeyByAppName(client[1], appName, e, keys)
       IN  last' = [op |-> "FindKeyByAppName", arg |-> appName, key |-> g.key,
                    result |-> <<>>, err |-> g.err, reqs |-> g.reqs, env |-> e,
                    before |-> keys]
    /\ UNCHANGED <<keys, minted, client, authOut, resVars, provVars>>

DoCreateKey(appName, e, pos) ==
    /\ client # <<>>
    /\ CanMint
    /\ pos \in 1..(Len(keys) + 1)
    /\ LET c == CreateKey(client[1], appName, e)
       IN  /\ last' = [op |-> "CreateKey", arg |-> appName, key |-> <<>>, result |-> <<>>,
                       err |-> c.err, reqs |-> c.reqs, env |-> e, before |-> keys]
           /\ IF Served(c.reqs, e)
              THEN /\ keys' = InsertAt(keys, pos, NewKey(minted + 1, ServerQueryApp(c.reqs[1].arg)))
                   /\ minted' = minted + 1
                   /\ rinterf' = Disturb("")
              ELSE UNCHANGED <<keys, minted, rinterf>>
    /\ UNCHANGED <<client, authOut, rpc, rplan, rsnap, rmine, rout, provVars>>

DoDeleteKey(accessToken, e) ==
    /\ client # <<>>
    /\ LET d == DeleteKey(client[1], accessToken, e)
       IN  /\ last' = [op |-> "DeleteKey", arg |-> accessToken, key |-> <<>>,
                       result |-> <<>>, err |-> d.err, reqs |-> d.reqs, env |-> e,
                       before |-> keys]
           /\ IF Served(d.reqs, e)
              THEN /\ keys' = ServerDelete(keys, d.reqs[1].arg)
                   /\ rinterf' = Disturb("")
              ELSE UNCHANGED <<keys, rinterf>>
    /\ UNCHANGED <<minted, client, authOut, rpc, rplan, rsnap, rmine, rout, provVars>>

\* Tokens a caller may ask for: every token the server can mint, and one it cannot.
LookupTokens == {KeyTokens[i] : i \in 1..MaxMinted} \cup { <<"n", "o", "/", "k">> }

NextClient ==
    \/ \E ep \in Endpoints, t \in AuthTokens : DoNewClient(ep, t)
    \/ \E ep \in Endpoints, e \in Envs, t \in AuthTokens : DoNewClientWithAuth(ep, e, t)
    \/ \E e \in Envs : DoGetKeys(e)
    \/ \E t \in LookupTokens, e \in Envs : DoGetKey(t, e)
    \/ \E n \in AppNames, e \in Envs : DoFindKeyByAppName(n, e)
    \/ \E n \in AppNames, e \in Envs, pos \in 1..(MaxKeys + 1) : DoCreateKey(n, e, pos)
    \/ \E t \in LookupTokens, e \in Envs : DoDeleteKey(t, e)

SpecClient == Init /\ [][NextClient]_vars

\* The exchanges the smaller runs answer with: a transport failure, a
\* success and an API failure.
FewEnvs == {FailEnv,
            [transport |-> "ok", status |-> 200, body |-> "json"],
            [transport |-> "ok", status |-> 401, body |-> "Unauthorized"]}

\* The constructor with every client identification, on its own.
NextAuth ==
    \E ep \in Endpoints, cfg \in ClientConfigs, e \in FewEnvs, t \in AuthTokens :
        DoNewClientWithAuthAndConfig(ep, cfg, e, t)

SpecAuth == Init /\ [][NextAuth]_vars

\* Configured endpoints with no, one and two trailing slashes.
URLEndpoints == Endpoints \cup { <<"h", "/", "/">> }


\* Both constructors over URLEndpoints, then every client operation.
NextURL ==
    \/ \E ep \in URLEndpoints : DoNewClient(ep, "tokA")
    \/ \E ep \in URLEndpoints, e \in FewEnvs : DoNewClientWithAuth(ep, e, "tokA")
    \/ \E e \in FewEnvs : DoGetKeys(e)
    \/ \E t \in LookupTokens, e \in FewEnvs : DoGetKey(t, e)
    \/ \E n \in AppNames, e \in FewEnvs : DoFindKeyByAppName(n, e)
    \/ \E n \in AppNames, e \in FewEnvs, pos \in 1..(MaxKeys + 1) : DoCreateKey(n, e, pos)
    \/ \E t \in LookupTokens, e \in FewEnvs : DoDeleteKey(t, e)

SpecURL == Init /\ [][NextURL]_vars

\* The characters escaping is run on, and the strings of at most n of them.
EscChars == {"x", " ", "&", "/", "%", "+", "="}
Strings(n) == UNION {[1..k -> EscChars] : k \in 0..n}

\* The caller passes the string it holds, last.arg, as an app name to
\* CreateKey and then as an access token to DeleteKey.
EscapeCreateKey(e) == last.op = "none" /\ DoCreateKey(last.arg, e, 1)
EscapeDeleteKey(e) == last.op \in {"none", "CreateKey"} /\ DoDeleteKey(last.arg, e)

NextEscape ==
    \/ \E e \in FewEnvs : EscapeCreateKey(e)
    \/ \E e \in FewEnvs : EscapeDeleteKey(e)

\* A client in front of an empty server, and a caller holding any string of
\* at most MaxLen characters.
InitEscape ==
    /\ keys = <<>>
    /\ minted = 0
    /\ client = NewClient(<<"h">>, "tokA")
    /\ authOut = NoAuth
    /\ \E s \in Strings(MaxLen) : last = [NoCall EXCEPT !.arg = s]
    /\ InitResources

SpecEscape == InitEscape /\ [][NextEscape]_vars


\* ------------------------------------------- APIKeyResource.Create: helpers
\* key.Id as Create reads it: client.APIKey has the fields AccessToken,
\* AppName and DateCreated only, so no item of the list carries an Id of its
\* own and every key reads as the int64 zero value.
KeyId(key) == 0

\* ExistingIDs with the snapshot loop never recording an identifier.
ExistingIDs_Empty(items) == {}

\* existingIDs: the identifiers of the keys listed before CreateKey.
ExistingIDs(items) == {KeyId(items[i]) : i \in 1..Len(items)}

\* CreatedKey without the app-name test.
CreatedKey_AnyName(items, existingIDs, appName) ==
    LET hits == {i \in 1..Len(items) : KeyId(items[i]) \notin existingIDs}
    IN  IF hits = {} THEN 0 ELSE CHOOSE i \in hits : \A j \in hits : i <= j

\* CreatedKey without the test against existingIDs (a plain lookup by name).
CreatedKey_NoSnapshot(items, existingIDs, appName) ==
    LET hits == {i \in 1..Len(items) : items[i].AppName = appName}
    IN  IF hits = {} THEN 0 ELSE CHOOSE i \in hits : \A j \in hits : i <= j

\* The loop that locates the created key: index of the first item that is not
\* in existingIDs and has the planned app name, 0 when createdKey stays nil.
CreatedKey(items, existingIDs, appName) ==
    LET hits == {i \in 1..Len(items) :
                    KeyId(items[i]) \notin existingIDs /\ items[i].AppName = appName}
    IN  IF hits = {} THEN 0 ELSE CHOOSE i \in hits : \A j \in hits : i <= j

\* APIKeyResourceModel written to state by Create.
CreateState(appName, key) ==
    [id |-> key.AccessToken, app_name |-> appName,
     access_token |-> key.AccessToken, date_created |-> key.DateCreated]

\* resp.Diagnostics.AddError("Client Error", detail) for client error err.
Diag(detail, err) == <<[summary |-> "Client Error", detail |-> detail, err |-> err]>>

\* ------------------------------------------- APIKeyResource.Create: actions
\* Create going on to CreateKey with an empty snapshot when the first GetKeys
\* failed.
CreateListExisting_IgnoresError(r, appName, e) ==
    /\ rpc[r] = "idle"
    /\ client # <<>>
    /\ rplan' = [rplan EXCEPT ![r] = appName]
    /\ LET g == GetKeys(client[1], e, keys)
       IN  IF g.err # NoErr
           THEN /\ rpc' = [rpc EXCEPT ![r] = "snap"]
                /\ rout' = [rout EXCEPT ![r].reqs = g.reqs, ![r].errs = <<g.err>>]
                /\ UNCHANGED rsnap
           ELSE /\ rpc' = [rpc EXCEPT ![r] = "snap"]
                /\ rsnap' = [rsnap EXCEPT ![r] =
                       [existingIDs |-> ExistingIDs(g.result[1].Items),
                        items |-> g.result[1].Items]]
                /\ rout' = [rout EXCEPT ![r].reqs = g.reqs, ![r].errs = <<g.err>>]
    /\ UNCHANGED <<keys, minted, client, authOut, last, rmine, rinterf, provVars>>

\* Create up to its first round trip: list the existing keys.
CreateListExisting(r, appName, e) ==
    /\ rpc[r] = "idle"
    /\ client # <<>>
    /\ rplan' = [rplan EXCEPT ![r] = appName]
    /\ LET g == GetKeys(client[1], e, keys)
       IN  IF g.err # NoErr
           THEN /\ rpc' = [rpc EXCEPT ![r] = "err"]
                /\ rout' = [rout EXCEPT ![r] =
                       [state |-> <<>>, reqs |-> g.reqs, newItems |-> <<>>,
                        errs |-> <<g.err>>,
                        diag |-> Diag("Unable to list existing API keys", g.err)]]
                /\ UNCHANGED rsnap
           ELSE /\ rpc' = [rpc EXCEPT ![r] = "snap"]
                /\ rsnap' = [rsnap EXCEPT ![r] =
                       [existingIDs |-> ExistingIDs(g.result[1].Items),
                        items |-> g.result[1].Items]]
                /\ rout' = [rout EXCEPT ![r].reqs = g.reqs, ![r].errs = <<g.err>>]
    /\ UNCHANGED <<keys, minted, client, authOut, last, rmine, rinterf, provVars>>

\* Create's second round trip: CreateKey(appName).
CreateSendCreateKey(r, e, pos) ==
    /\ rpc[r] = "snap"
    /\ CanMint
    /\ pos \in 1..(Len(keys) + 1)
    /\ LET c == CreateKey(client[1], rplan[r], e)
       IN  /\ IF c.err # NoErr
              THEN /\ rpc' = [rpc EXCEPT ![r] = "err"]
                   /\ rout' = [rout EXCEPT ![r].reqs = @ \o c.reqs, ![r].errs = @ \o <<c.err>>,
                                           ![r].diag = Diag("Unable to create API key", c.err)]
              ELSE /\ rpc' = [rpc EXCEPT ![r] = "created"]
                   /\ rout' = [rout EXCEPT ![r].reqs = @ \o c.reqs, ![r].errs = @ \o <<c.err>>]
           /\ IF Served(c.reqs, e)
              THEN /\ keys' = InsertAt(keys, pos, NewKey(minted + 1, ServerQueryApp(c.reqs[1].arg)))
                   /\ minted' = minted + 1
                   /\ rmine' = [rmine EXCEPT ![r] = KeyTokens[minted + 1]]
                   /\ rinterf' = Disturb(r)
              ELSE UNCHANGED <<keys, minted, rmine, rinterf>>
    /\ UNCHANGED <<client, authOut, last, rplan, rsnap, provVars>>

\* Create's third round trip and its end: list again, locate, write state.
CreateLocate(r, e) ==
    /\ rpc[r] = "created"
    /\ LET g == GetKeys(client[1], e, keys)
       IN  IF g.err # NoErr
           THEN /\ rpc' = [rpc EXCEPT ![r] = "err"]
                /\ rout' = [rout EXCEPT ![r].reqs = @ \o g.reqs, ![r].errs = @ \o <<g.err>>,
                       ![r].diag = Diag("Unable to list API keys after creation", g.err)]
           ELSE LET items == g.result[1].Items
                    i == CreatedKey(items, rsnap[r].existingIDs, rplan[r])
                IN  IF i = 0
                    THEN /\ rpc' = [rpc EXCEPT ![r] = "err"]
                         /\ rout' = [rout EXCEPT ![r].reqs = @ \o g.reqs, ![r].errs = @ \o <<g.err>>,
                                ![r].newItems = <<items>>,
                                ![r].diag = Diag("Unable to find the newly created API key", NoErr)]
                    ELSE /\ rpc' = [rpc EXCEPT ![r] = "done"]
                         /\ rout' = [rout EXCEPT ![r].reqs = @ \o g.reqs, ![r].errs = @ \o <<g.err>>,
                                ![r].newItems = <<items>>,
                                ![r].state = <<CreateState(rplan[r], items[i])>>]
    /\ UNCHANGED <<keys, minted, client, authOut, last, rplan, rsnap, rmine, rinterf, provVars>>

\* ------------------------------------------ another actor on the same server
OtherCreate(appName, pos) ==
    /\ CanMint
    /\ pos \in 1..(Len(keys) + 1)
    /\ keys' = InsertAt(keys, pos, NewKey(minted + 1, appName))
    /\ minted' = minted + 1
    /\ rinterf' = Disturb("")
    /\ UNCHANGED <<client, authOut, last, rpc, rplan, rsnap, rmine, rout, provVars>>

OtherDelete(tok) ==
    /\ tok \in Tokens(keys)
    /\ keys' = Remove(keys, tok)
    /\ rinterf' = Disturb("")
    /\ UNCHANGED <<minted, client, authOut, last, rpc, rplan, rsnap, rmine, rout, provVars>>

\* ------------------------------------------------------------ specification
\* The provider is configured: resources share one client.
InitConfigured ==
    /\ keys = <<>>
    /\ minted = 0
    /\ \E ep \in Endpoints : client = NewClient(ep, "tokA")
    /\ authOut = NoAuth
    /\ last = NoCall
    /\ InitResources

Next ==
    \/ \E r \in Resources, n \in AppNames, e \in CreateEnvs : CreateListExisting(r, n, e)
    \/ \E r \in Resources, e \in CreateEnvs, pos \in 1..(MaxKeys + 1) : CreateSendCreateKey(r, e, pos)
    \/ \E r \in Resources, e \in CreateEnvs : CreateLocate(r, e)
    \/ \E n \in AppNames, pos \in 1..(MaxKeys + 1) : OtherCreate(n, pos)
    \/ \E t \in LookupTokens : OtherDelete(t)

Spec == InitConfigured /\ [][Next]_vars

\* ------------------------------------------------ Terraform attribute values
\* A types.String is null or holds a string; strings are sequences of
\* characters, and null is a sequence that is no string.
Null == <<"null">>

\* types.String.ValueString(): the empty string for null.
ValueString(v) == IF v = Null THEN <<>> ELSE v

\* resp.Diagnostics.AddError(summary, detail) without a client error.
AttrDiag(summary, detail) == <<[summary |-> summary, detail |-> detail, err |-> NoErr]>>

\* Client.GetKeyByAccessToken(ctx, accessToken), the lookup the resource and
\* the data source call: GetKeys, then a linear scan for the first item with
\* that AccessToken; no key and no error when none matches; GetKeys' error
\* is passed on.
GetKeyByAccessToken(c, accessToken, e, ks) ==
    LET g == GetKeys(c, e, ks)
    IN  IF g.err # NoErr
        THEN [key |-> <<>>, err |-> g.err, reqs |-> g.reqs]
        ELSE LET items == g.result[1].Items
                 i == FirstIndex(items, "AccessToken", accessToken)
             IN  [key |-> IF i = 0 THEN <<>> ELSE <<items[i]>>,
                  err |-> NoErr, reqs |-> g.reqs]

\* KeyState with the app name stored as the id.
KeyState_NameAsId(key) ==
    [id |-> key.AppName, app_name |-> key.AppName,
     access_token |-> key.AccessToken, date_created |-> key.DateCreated]

\* The model written to state from a key found on the server.
KeyState(key) ==
    [id |-> key.AccessToken, app_name |-> key.AppName,
     access_token |-> key.AccessToken, date_created |-> key.DateCreated]

\* --------------------------------- APIKeyResource.ImportState and .Read
\* resource.ImportStatePassthroughID(ctx, path.Root("id"), req, resp): a state
\* with id set to the import id and every other attribute null.
ImportState(id) ==
    <<[id |-> id, app_name |-> Null, access_token |-> Null, date_created |-> Null]>>

\* Read dropping the resource from state when the lookup fails.
ResourceRead_ErrorRemoves(c, state, e, ks) ==
    LET accessToken == ValueString(state[1].id)
        g == GetKeyByAccessToken(c, accessToken, e, ks)
    IN  IF g.err # NoErr
        THEN [state |-> <<>>, diag |-> Diag("Unable to read API key", g.err),
              reqs |-> g.reqs]
        ELSE IF g.key = <<>>
        THEN [state |-> <<>>, diag |-> <<>>, reqs |-> g.reqs]
        ELSE [state |-> <<KeyState(g.key[1])>>, diag |-> <<>>, reqs |-> g.reqs]

\* Read refreshing id and access_token only.
ResourceRead_TokenOnly(c, state, e, ks) ==
    LET accessToken == ValueString(state[1].id)
        g == GetKeyByAccessToken(c, accessToken, e, ks)
    IN  IF g.err # NoErr
        THEN [state |-> state, diag |-> Diag("Unable to read API key", g.err),
              reqs |-> g.reqs]
        ELSE IF g.key = <<>>
        THEN [state |-> <<>>, diag |-> <<>>, reqs |-> g.reqs]
        ELSE [state |-> <<[state[1] EXCEPT !.id = g.key[1].AccessToken,
                                           !.access_token = g.key[1].AccessToken]>>,
              diag |-> <<>>, reqs |-> g.reqs]

\* Read taking the last listed key whenever the looked-up key exists.
ResourceRead_LastItem(c, state, e, ks) ==
    LET accessToken == ValueString(state[1].id)
        g == GetKeyByAccessToken(c, accessToken, e, ks)
    IN  IF g.err # NoErr
        THEN [state |-> state, diag |-> Diag("Unable to read API key", g.err),
              reqs |-> g.reqs]
        ELSE IF g.key = <<>>
        THEN [state |-> <<>>, diag |-> <<>>, reqs |-> g.reqs]
        ELSE [state |-> <<KeyState(Last(DecodeItems(ks)))>>, diag |-> <<>>, reqs |-> g.reqs]

\* APIKeyResource.Read on the prior state: the state it leaves (<<>> after
\* RemoveResource), its diagnostics and the requests it sent.
ResourceRead(c, state, e, ks) ==
    LET accessToken == ValueString(state[1].id)
        g == GetKeyByAccessToken(c, accessToken, e, ks)
    IN  IF g.err # NoErr
        THEN [state |-> state, diag |-> Diag("Unable to read API key", g.err),
              reqs |-> g.reqs]
        ELSE IF g.key = <<>>
        THEN [state |-> <<>>, diag |-> <<>>, reqs |-> g.reqs]
        ELSE [state |-> <<KeyState(g.key[1])>>, diag |-> <<>>, reqs |-> g.reqs]

DoImportState(r, id) ==
    /\ rpc[r] = "idle"
    /\ rpc' = [rpc EXCEPT ![r] = "imported"]
    /\ rout' = [rout EXCEPT ![r] = [NoOut EXCEPT !.state = ImportState(id)]]
    /\ rlast' = [rlast EXCEPT ![r] = [NoRead EXCEPT !.op = "ImportState"]]
    /\ UNCHANGED <<keys, minted, client, authOut, last, rplan, rsnap, rmine, rinterf,
                   ds, prov>>

DoResourceRead(r, e) ==
    /\ client # <<>>
    /\ rpc[r] \in {"done", "imported"}
    /\ LET rd == ResourceRead(client[1], rout[r].state, e, keys)
       IN  /\ rout' = [rout EXCEPT ![r].state = rd.state]
           /\ rlast' = [rlast EXCEPT ![r] =
                           [op |-> "Read", prior |-> rout[r].state, diag |-> rd.diag,
                            reqs |-> rd.reqs, env |-> e, before |-> keys]]
           /\ rpc' = IF rd.state = <<>> THEN [rpc EXCEPT ![r] = "gone"] ELSE rpc
    /\ UNCHANGED <<keys, minted, client, authOut, last, rplan, rsnap, rmine, rinterf,
                   ds, prov>>

\* One resource is created, the other imported; both are read, while another
\* actor creates keys named "app" and deletes keys. The server appends the
\* keys it creates.
NextLife ==
    \/ \E n \in AppNames, e \in FewEnvs : CreateListExisting("r1", n, e)
    \/ \E e \in FewEnvs : CreateSendCreateKey("r1", e, Len(keys) + 1)
    \/ \E e \in FewEnvs : CreateLocate("r1", e)
    \/ \E t \in LookupTokens : DoImportState("r2", t)
    \/ \E r \in Resources, e \in FewEnvs : DoResourceRead(r, e)
    \/ OtherCreate(<<"a", "p", "p">>, Len(keys) + 1)
    \/ \E t \in LookupTokens : OtherDelete(t)

SpecLife == InitConfigured /\ [][NextLife]_vars

\* ------------------------------------------------- APIKeyDataSource.Read
\* The configurations of the data source: each attribute null or set.
DataConfigs == [app_name : {Null} \cup AppNames, access_token : {Null} \cup LookupTokens]

\* Data-source Read answering a missing key with an empty state.
DataSourceRead_EmptyResult(c, config, e, ks) ==
    LET hasAppName == config.app_name # Null
        hasAccessToken == config.access_token # Null
    IN  IF ~hasAppName /\ ~hasAccessToken
        THEN [state |-> <<>>, reqs |-> <<>>,
              diag |-> AttrDiag("Missing Required Attribute",
                  "Either 'app_name' or 'access_token' must be provided to look up an API key.")]
        ELSE LET g == IF hasAccessToken
                      THEN GetKeyByAccessToken(c, ValueString(config.access_token), e, ks)
                      ELSE FindKeyByAppName(c, ValueString(config.app_name), e, ks)
             IN  IF g.err # NoErr
                 THEN [state |-> <<>>, reqs |-> g.reqs,
                       diag |-> Diag("Unable to read API key", g.err)]
                 ELSE IF g.key = <<>>
                 THEN [state |-> <<[id |-> Null, app_name |-> config.app_name,
                                    access_token |-> config.access_token,
                                    date_created |-> Null]>>,
                       reqs |-> g.reqs, diag |-> <<>>]
                 ELSE [state |-> <<KeyState(g.key[1])>>, reqs |-> g.reqs, diag |-> <<>>]

\* Data-source Read sending the lookup before it checks the attributes.
DataSourceRead_LookupFirst(c, config, e, ks) ==
    LET hasAppName == config.app_name # Null
        hasAccessToken == config.access_token # Null
        g == IF hasAccessToken
             THEN GetKeyByAccessToken(c, ValueString(config.access_token), e, ks)
             ELSE FindKeyByAppName(c, ValueString(config.app_name), e, ks)
    IN  IF ~hasAppName /\ ~hasAccessToken
        THEN [state |-> <<>>, reqs |-> g.reqs,
              diag |-> AttrDiag("Missing Required Attribute",
                  "Either 'app_name' or 'access_token' must be provided to look up an API key.")]
        ELSE IF g.err # NoErr
        THEN [state |-> <<>>, reqs |-> g.reqs,
              diag |-> Diag("Unable to read API key", g.err)]
        ELSE IF g.key = <<>>
        THEN [state |-> <<>>, reqs |-> g.reqs,
              diag |-> AttrDiag("API Key Not Found", "The specified API key was not found.")]
        ELSE [state |-> <<KeyState(g.key[1])>>, reqs |-> g.reqs, diag |-> <<>>]

\* Read looking up by app name whenever app_name is supplied.
DataSourceRead_NameFirst(c, config, e, ks) ==
    LET hasAppName == config.app_name # Null
        hasAccessToken == config.access_token # Null
    IN  IF ~hasAppName /\ ~hasAccessToken
        THEN [state |-> <<>>, reqs |-> <<>>,
              diag |-> AttrDiag("Missing Required Attribute",
                  "Either 'app_name' or 'access_token' must be provided to look up an API key.")]
        ELSE LET g == IF hasAppName
                      THEN FindKeyByAppName(c, ValueString(config.app_name), e, ks)
                      ELSE GetKeyByAccessToken(c, ValueString(config.access_token), e, ks)
             IN  IF g.err # NoErr
                 THEN [state |-> <<>>, reqs |-> g.reqs,
                       diag |-> Diag("Unable to read API key", g.err)]
                 ELSE IF g.key = <<>>
                 THEN [state |-> <<>>, reqs |-> g.reqs,
                       diag |-> AttrDiag("API Key Not Found",
                                         "The specified API key was not found.")]
                 ELSE [state |-> <<KeyState(g.key[1])>>, reqs |-> g.reqs, diag |-> <<>>]

\* APIKeyDataSource.Read on a configuration: the state it sets (<<>> when it
\* sets none), its diagnostics and the requests it sent.
DataSourceRead(c, config, e, ks) ==
    LET hasAppName == config.app_name # Null
        hasAccessToken == config.access_token # Null
    IN  IF ~hasAppName /\ ~hasAccessToken
        THEN [state |-> <<>>, reqs |-> <<>>,
              diag |-> AttrDiag("Missing Required Attribute",
                  "Either 'app_name' or 'access_token' must be provided to look up an API key.")]
        ELSE LET g == IF hasAccessToken
                      THEN GetKeyByAccessToken(c, ValueString(config.access_token), e, ks)
                      ELSE FindKeyByAppName(c, ValueString(config.app_name), e, ks)
             IN  IF g.err # NoErr
                 THEN [state |-> <<>>, reqs |-> g.reqs,
                       diag |-> Diag("Unable to read API key", g.err)]
                 ELSE IF g.key = <<>>
                 THEN [state |-> <<>>, reqs |-> g.reqs,
                       diag |-> AttrDiag("API Key Not Found",
                                         "The specified API key was not found.")]
                 ELSE [state |-> <<KeyState(g.key[1])>>, reqs |-> g.reqs, diag |-> <<>>]

DoDataSourceRead(config, e) ==
    /\ client # <<>>
    /\ LET rd == DataSourceRead(client[1], config, e, keys)
       IN  ds' = [op |-> "Read", config |-> <<config>>, state |-> rd.state,
                  diag |-> rd.diag, reqs |-> rd.reqs, env |-> e, before |-> keys]
    /\ UNCHANGED <<keys, minted, client, authOut, last, resVars, rlast, prov>>

\* The key lists a server can hold: up to MaxKeys keys it minted, in any order.
ServerLists ==
    LET Minted == {NewKey(i, n) : i \in 1..MaxMinted, n \in AppNames}
    IN  UNION {{ks \in [1..k -> Minted] :
                   \A i \in 1..k, j \in 1..k : i # j => ks[i].AccessToken # ks[j].AccessToken}
               : k \in 0..MaxKeys}

\* A configured provider in front of a server that holds any such list.
InitData ==
    /\ keys \in ServerLists
    /\ minted = MaxMinted
    /\ client = NewClient(<<"h">>, "tokA")
    /\ authOut = NoAuth
    /\ last = NoCall
    /\ InitResources

NextData == \E config \in DataConfigs, e \in Envs : DoDataSourceRead(config, e)

SpecData == InitData /\ [][NextData]_vars

\* ------------------------------------------- JellyfinProvider.Configure
\* The provider block: each attribute null, empty or set.
ProviderConfigs ==
    [endpoint : {Null, <<>>, <<"h", "/">>}, username : {Null, <<>>, <<"u">>},
     password : {Null, <<>>, <<"p">>}]

\* The process environment: each variable unset (empty) or set. JELLYFIN_API_KEY
\* is the variable the README names; Configure never reads it.
Environs ==
    [JELLYFIN_ENDPOINT : {<<>>, <<"e">>, <<"e", "^">>}, JELLYFIN_USERNAME : {<<>>, <<"e", "u">>},
     JELLYFIN_PASSWORD : {<<>>, <<"e", "p">>}, JELLYFIN_API_KEY : {<<>>, <<"e", "k">>}]

\* The diagnostics Configure adds for the values that are still empty.
MissingDiags(endpoint, username, password) ==
    (IF endpoint = <<>> THEN AttrDiag("Missing Jellyfin Endpoint",
         "The provider cannot create the Jellyfin API client as there is a missing or empty value for the Jellyfin endpoint.") ELSE <<>>) \o
    (IF username = <<>> THEN AttrDiag("Missing Jellyfin Username",
         "The provider cannot create the Jellyfin API client as there is a missing or empty value for the Jellyfin username.") ELSE <<>>) \o
    (IF password = <<>> THEN AttrDiag("Missing Jellyfin Password",
         "The provider cannot create the Jellyfin API client as there is a missing or empty value for the Jellyfin password.") ELSE <<>>)

\* Configure reading the environment first and the configuration after it.
ProviderConfigure_EnvFirst(config, environ, e, tok) ==
    LET endpoint == IF environ.JELLYFIN_ENDPOINT = <<>>
                    THEN ValueString(config.endpoint) ELSE environ.JELLYFIN_ENDPOINT
        username == IF environ.JELLYFIN_USERNAME = <<>>
                    THEN ValueString(config.username) ELSE environ.JELLYFIN_USERNAME
        password == IF environ.JELLYFIN_PASSWORD = <<>>
                    THEN ValueString(config.password) ELSE environ.JELLYFIN_PASSWORD
        missing == MissingDiags(endpoint, username, password)
        a == NewClientWithAuth(endpoint, username, password, e, tok)
    IN  IF missing # <<>>
        THEN [diag |-> missing, reqs |-> <<>>, ResourceData |-> <<>>,
              DataSourceData |-> <<>>]
        ELSE IF a.err # NoErr
        THEN [diag |-> <<[summary |-> "Failed to Authenticate with Jellyfin",
                          detail |-> "The provider failed to authenticate with the Jellyfin server.",
                          err |-> a.err]>>,
              reqs |-> a.reqs, ResourceData |-> <<>>, DataSourceData |-> <<>>]
        ELSE [diag |-> <<>>, reqs |-> a.reqs, ResourceData |-> a.client,
              DataSourceData |-> a.client]

\* JellyfinProvider.Configure on a provider block and an environment: its
\* diagnostics, the requests it sent and the client it hands to resources
\* (ResourceData) and data sources (DataSourceData).
ProviderConfigure(config, environ, e, tok) ==
    LET endpoint == IF ValueString(config.endpoint) = <<>>
                    THEN environ.JELLYFIN_ENDPOINT ELSE ValueString(config.endpoint)
        username == IF ValueString(config.username) = <<>>
                    THEN environ.JELLYFIN_USERNAME ELSE ValueString(config.username)
        password == IF ValueString(config.password) = <<>>
                    THEN environ.JELLYFIN_PASSWORD ELSE ValueString(config.password)
        missing == MissingDiags(endpoint, username, password)
        a == NewClientWithAuth(endpoint, username, password, e, tok)
    IN  IF missing # <<>>
        THEN [diag |-> missing, reqs |-> <<>>, ResourceData |-> <<>>,
              DataSourceData |-> <<>>]
        ELSE IF a.err # NoErr
        THEN [diag |-> <<[summary |-> "Failed to Authenticate with Jellyfin",
                          detail |-> "The provider failed to authenticate with the Jellyfin server.",
                          err |-> a.err]>>,
              reqs |-> a.reqs, ResourceData |-> <<>>, DataSourceData |-> <<>>]
        ELSE [diag |-> <<>>, reqs |-> a.reqs, ResourceData |-> a.client,
              DataSourceData |-> a.client]

\* Configure runs once; the resources and the data source keep the client
\* it hands them.
DoProviderConfigure(config, environ, e, tok) ==
    /\ prov.op = "none"
    /\ LET p == ProviderConfigure(config, environ, e, tok)
       IN  /\ prov' = [op |-> "Configure", config |-> <<config>>, environ |-> <<environ>>,
                       env |-> e, tok |-> tok, diag |-> p.diag, reqs |-> p.reqs,
                       ResourceData |-> p.ResourceData,
                       DataSourceData |-> p.DataSourceData]
           /\ client' = p.ResourceData
    /\ UNCHANGED <<keys, minted, authOut, last, resVars, rlast, ds>>

\* After Configure the data source reads with the client it was handed.
NextProvider ==
    \/ \E config \in ProviderConfigs, environ \in Environs, e \in FewEnvs, t \in AuthTokens :
          DoProviderConfigure(config, environ, e, t)
    \/ \E config \in DataConfigs, e \in FewEnvs : DoDataSourceRead(config, e)

SpecProvider == Init /\ [][NextProvider]_vars

\* --------------------------------------- round trips of the public operations
\* Create of one resource for the app name "app" and every client operation;
\* the server appends the keys it creates.
NextTrips ==
    \/ \E e \in FewEnvs : CreateListExisting("r1", <<"a", "p", "p">>, e)
    \/ \E e \in FewEnvs : CreateSendCreateKey("r1", e, Len(keys) + 1)
    \/ \E e \in FewEnvs : CreateLocate("r1", e)
    \/ \E e \in FewEnvs : DoGetKeys(e)
    \/ \E t \in LookupTokens, e \in FewEnvs : DoGetKey(t, e)
    \/ \E n \in AppNames, e \in FewEnvs : DoFindKeyByAppName(n, e)
    \/ \E n \in AppNames, e \in FewEnvs : DoCreateKey(n, e, Len(keys) + 1)
    \/ \E t \in LookupTokens, e \in FewEnvs : DoDeleteKey(t, e)

SpecTrips == InitConfigured /\ [][NextTrips]_vars


\* ----------------- APIKeyResource.Update and .Delete, and the plan of a change
\* The plan Terraform derives for configuration app_name n over a prior state:
\* app_name from the configuration, the computed attributes kept from the
\* state (UseStateForUnknown on id, access_token and date_created).
PlannedState(state, n) == <<[state[1] EXCEPT !.app_name = n]>>

\* The schema without the plan modifier on app_name.
RequiresReplace_Never(state, n) == FALSE

\* stringplanmodifier.RequiresReplace() on app_name: a planned app_name that
\* differs from the state's makes Terraform replace the resource (Delete, then
\* Create) instead of calling Update.
RequiresReplace(state, n) == state[1].app_name # n

\* APIKeyResource.Update: the plan is stored as the state; no request.
ResourceUpdate(c, plan) == [state |-> plan, diag |-> <<>>, reqs |-> <<>>]

\* Delete dropping the resource whether or not DeleteKey failed.
ResourceDelete_IgnoresError(c, state, e) ==
    LET d == DeleteKey(c, ValueString(state[1].access_token), e)
    IN  [state |-> <<>>, diag |-> <<>>, reqs |-> d.reqs]

\* APIKeyResource.Delete on the state: DeleteKey for the state's access_token;
\* an error is reported and the state kept, otherwise Terraform drops the
\* resource from state (<<>>).
ResourceDelete(c, state, e) ==
    LET accessToken == ValueString(state[1].access_token)
        d == DeleteKey(c, accessToken, e)
    IN  IF d.err # NoErr
        THEN [state |-> state, diag |-> Diag("Unable to delete API key", d.err),
              reqs |-> d.reqs]
        ELSE [state |-> <<>>, diag |-> <<>>, reqs |-> d.reqs]

\* Terraform applies configuration app_name n to a resource in state without
\* replacing it: Update is called with the plan.
DoResourceUpdate(r, n) ==
    /\ client # <<>>
    /\ rpc[r] \in {"done", "imported"}
    /\ rout[r].state[1].access_token # Null
    /\ ~RequiresReplace(rout[r].state, n)
    /\ LET u == ResourceUpdate(client[1], PlannedState(rout[r].state, n))
       IN  /\ rout' = [rout EXCEPT ![r].state = u.state]
           /\ rlast' = [rlast EXCEPT ![r] =
                           [op |-> "Update", prior |-> rout[r].state, diag |-> u.diag,
                            reqs |-> u.reqs, env |-> FailEnv, before |-> keys]]
    /\ rplan' = [rplan EXCEPT ![r] = n]
    /\ UNCHANGED <<keys, minted, client, authOut, last, rpc, rsnap, rmine, rinterf,
                   ds, prov>>

\* Terraform destroys a resource in state: because it left the configuration
\* (n is null) or as the first half of a replacement for the new app_name n.
\* The state Delete gets has been refreshed by Read.
DoResourceDelete(r, n, e) ==
    /\ client # <<>>
    /\ rpc[r] \in {"done", "imported"}
    /\ rout[r].state[1].access_token # Null
    /\ n = Null \/ RequiresReplace(rout[r].state, n)
    /\ LET d == ResourceDelete(client[1], rout[r].state, e)
       IN  /\ rlast' = [rlast EXCEPT ![r] =
                           [op |-> "Delete", prior |-> rout[r].state, diag |-> d.diag,
                            reqs |-> d.reqs, env |-> e, before |-> keys]]
           /\ IF d.state = <<>>
              THEN /\ rpc' = [rpc EXCEPT ![r] = "idle"]
                   /\ rplan' = [rplan EXCEPT ![r] = n]
                   /\ rout' = [rout EXCEPT ![r] = NoOut]
                   /\ rsnap' = [rsnap EXCEPT ![r] = NoSnap]
                   /\ rmine' = [rmine EXCEPT ![r] = <<>>]
              ELSE UNCHANGED <<rpc, rplan, rout, rsnap, rmine>>
           /\ IF Served(d.reqs, e)
              THEN /\ keys' = ServerDelete(keys, d.reqs[1].arg)
                   /\ rinterf' = Disturb("")
              ELSE UNCHANGED <<keys, rinterf>>
    /\ UNCHANGED <<minted, client, authOut, last, ds, prov>>

\* Create of a resource that is not in state: first created for any app name,
\* or the second half of a replacement, for the app name that required it.
ApplyCreate(r, n, e) ==
    /\ rlast[r].op = "Delete" => n = rplan[r]
    /\ CreateListExisting(r, n, e)

\* The provider hands the resources a client only after NewClientWithAuth
\* succeeded, so its endpoint is one a request can be built for.
InitApply ==
    /\ keys = <<>>
    /\ minted = 0
    /\ client = NewClient(<<"h">>, "tokA")
    /\ authOut = NoAuth
    /\ last = NoCall
    /\ InitResources

\* The life of resources under Terraform: r1 is created, r2 imported; both are
\* read and updated, r1 is destroyed and replaced, while another actor creates
\* keys named "app". The server appends the keys it creates.
NextApply ==
    \/ \E n \in AppNames, e \in FewEnvs : ApplyCreate("r1", n, e)
    \/ \E e \in FewEnvs : CreateSendCreateKey("r1", e, Len(keys) + 1)
    \/ \E e \in FewEnvs : CreateLocate("r1", e)
    \/ \E t \in LookupTokens : DoImportState("r2", t)
    \/ \E r \in Resources, e \in FewEnvs : DoResourceRead(r, e)
    \/ \E r \in Resources, n \in AppNames : DoResourceUpdate(r, n)
    \/ \E n \in AppNames \cup {Null}, e \in FewEnvs : DoResourceDelete("r1", n, e)
    \/ OtherCreate(<<"a", "p", "p">>, Len(keys) + 1)

SpecApply == InitApply /\ [][NextApply]_vars


\* ------------------------------------ one key seen through every lookup
\* A resource is created while another actor creates keys; once its Create has
\* ended, the server's keys are looked up by access token, by app name and
\* through the data source by app name, each lookup being answered with the
\* list. The server appends the keys it creates.
LookupAfterCreate(e) ==
    /\ rpc["r1"] \in {"done", "err"}
    /\ \/ \E t \in LookupTokens : DoGetKey(t, e)
       \/ \E n \in AppNames : DoFindKeyByAppName(n, e)
       \/ \E n \in AppNames : DoDataSourceRead([app_name |-> n, access_token |-> Null], e)

NextSame ==
    \/ \E n \in AppNames, e \in FewEnvs : CreateListExisting("r1", n, e)
    \/ \E e \in FewEnvs : CreateSendCreateKey("r1", e, Len(keys) + 1)
    \/ \E e \in FewEnvs : CreateLocate("r1", e)
    \/ \E n \in AppNames : OtherCreate(n, Len(keys) + 1)
    \/ LookupAfterCreate([transport |-> "ok", status |-> 200, body |-> "json"])

SpecSame == InitApply /\ [][NextSame]_vars


\* --------------------------------------------- calls that get no response
\* Both constructors and the five operations, each exchange ending with the
\* HTTP client's error (as under a cancelled context), with a success or with
\* an API failure. The server appends the keys it creates.
NextCancel ==
    \/ \E t \in AuthTokens : DoNewClient(<<"h">>, t)
    \/ \E e \in FewEnvs, t \in AuthTokens : DoNewClientWithAuth(<<"h">>, e, t)
    \/ \E e \in FewEnvs : DoGetKeys(e)
    \/ \E t \in LookupTokens, e \in FewEnvs : DoGetKey(t, e)
    \/ \E n \in AppNames, e \in FewEnvs : DoFindKeyByAppName(n, e)
    \/ \E n \in AppNames, e \in FewEnvs : DoCreateKey(n, e, Len(keys) + 1)
    \/ \E t \in LookupTokens, e \in FewEnvs : DoDeleteKey(t, e)

SpecCancel == Init /\ [][NextCancel]_vars


\* ================================================================== claims
\* Shorthands for the outcome of resource r's Create.
Ended(r) == rpc[r] \in {"done", "err"}
Listed(r) == rout[r].newItems # <<>>
NewItems(r) == rout[r].newItems[1]
State(r) == rout[r].state[1]
SnapTokens(r) == {rsnap[r].items[i].AccessToken : i \in 1..Len(rsnap[r].items)}
SnapNames(r) == {rsnap[r].items[i].AppName : i \in 1..Len(rsnap[r].items)}
\* Items of the second list that Create may take for the created key.
Eligible(r) == {i \in 1..Len(NewItems(r)) :
                   /\ KeyId(NewItems(r)[i]) \notin rsnap[r].existingIDs
                   /\ NewItems(r)[i].AppName = rplan[r]}

\* C1: a successful Create writes to state a key of the list fetched after
\* CreateKey whose identifier is absent from the snapshot and whose AppName is
\* the planned one, with id = access_token = its AccessToken and date_created
\* = its DateCreated; when the second list holds no such key, Create reports
\* an error and writes no state.
C1_CreateRecordsLocatedKey ==
    \A r \in Resources :
        /\ rpc[r] = "done" =>
              /\ rout[r].state # <<>> /\ rout[r].diag = <<>> /\ Listed(r)
              /\ \E i \in Eligible(r) :
                    /\ State(r).id = NewItems(r)[i].AccessToken
                    /\ State(r).access_token = NewItems(r)[i].AccessToken
                    /\ State(r).date_created = NewItems(r)[i].DateCreated
                    /\ State(r).app_name = NewItems(r)[i].AppName
        /\ (Listed(r) /\ Eligible(r) = {}) =>
              rpc[r] = "err" /\ rout[r].state = <<>> /\ rout[r].diag # <<>>
        /\ rpc[r] = "err" => rout[r].state = <<>> /\ rout[r].diag # <<>>

\* C1 witness: a Create succeeded on a second list of two keys.
C1_Witness ==
    \E r \in Resources : rpc[r] = "done" /\ Len(NewItems(r)) = 2

\* C2 (as claimed): when nobody else changes the server during the call and
\* no client call fails, Create ends without error holding the token minted
\* for its own CreateKey request, whatever keys were on the server before;
\* two resources created one after the other hold different tokens.
C2_CreateFindsOwnKey ==
    /\ \A r \in Resources :
          (Ended(r) /\ ~rinterf[r] /\ (rout[r].diag # <<>> => rout[r].diag[1].err = NoErr))
             => (rpc[r] = "done" /\ State(r).access_token = rmine[r])
    /\ \A r \in Resources, q \in Resources :
          (r # q /\ rpc[r] = "done" /\ rpc[q] = "done" /\ ~rinterf[r] /\ ~rinterf[q])
             => State(r).access_token # State(q).access_token

\* C3: Create is not atomic with other creators. A Create records a key that
\* its own CreateKey request did not mint only if someone else changed the
\* server between its snapshot and its re-fetch, and that key then has the
\* planned app name and was not in the snapshot; two Creates that record the
\* same access token asked for the same app name and both were overtaken.
C3_ForeignKeyOnlyByRace ==
    /\ \A r \in Resources :
          (rpc[r] = "done" /\ State(r).access_token # rmine[r]) =>
             /\ rinterf[r]
             /\ State(r).access_token \notin SnapTokens(r)
             /\ \E i \in 1..Len(NewItems(r)) :
                   /\ NewItems(r)[i].AccessToken = State(r).access_token
                   /\ NewItems(r)[i].AppName = rplan[r]
    /\ \A r \in Resources, q \in Resources :
          (r # q /\ rpc[r] = "done" /\ rpc[q] = "done"
               /\ State(r).access_token = State(q).access_token) =>
             (rplan[r] = rplan[q] /\ (rinterf[r] \/ rinterf[q]))

\* C3 witness: two Creates for the same app name recorded the same access
\* token, so one of them holds a key minted for the other.
C3_Witness ==
    \E r \in Resources, q \in Resources :
        /\ r # q /\ rpc[r] = "done" /\ rpc[q] = "done"
        /\ rplan[r] = rplan[q]
        /\ State(r).access_token = State(q).access_token
        /\ State(r).access_token # rmine[r]

Answered == ValidURL(client[1].endpoint) /\ last.env.transport = "ok"
\* GetKeys succeeded inside the last lookup: a 200 response whose body decodes.
ListSucceeded == Answered /\ last.env.status = 200 /\ last.env.body = "json"
IsLookup == last.op \in {"GetKey", "FindKeyByAppName"}
LookupField == IF last.op = "GetKey" THEN "AccessToken" ELSE "AppName"
\* Positions of the server's list that match the last lookup's argument.
Matches == {i \in 1..Len(last.before) : last.before[i][LookupField] = last.arg}

\* C5: GetKey and FindKeyByAppName return no key and no error exactly when
\* GetKeys succeeded and no item matches, an error and no key exactly when
\* GetKeys failed, and never a key together with an error.
C5_NotFoundIsNotAnError ==
    IsLookup =>
        /\ (last.key = <<>> /\ last.err = NoErr) <=> (ListSucceeded /\ Matches = {})
        /\ (last.key = <<>> /\ last.err # NoErr) <=> ~ListSucceeded
        /\ ~(last.key # <<>> /\ last.err # NoErr)

\* C5 witness: a lookup on a non-empty list found nothing and reported no error.
C5_Witness ==
    /\ IsLookup /\ Len(last.before) > 0 /\ ListSucceeded /\ Matches = {}
    /\ last.key = <<>> /\ last.err = NoErr

\* C6: when items match, GetKey and FindKeyByAppName return the first matching
\* item in list order, with its AccessToken, AppName and DateCreated.
C6_FirstMatchReturned ==
    (IsLookup /\ ListSucceeded /\ Matches # {}) =>
        /\ last.err = NoErr
        /\ Len(last.key) = 1
        /\ \E i \in Matches :
              /\ \A j \in Matches : i <= j
              /\ last.key[1].AccessToken = last.before[i].AccessToken
              /\ last.key[1].AppName = last.before[i].AppName
              /\ last.key[1].DateCreated = last.before[i].DateCreated

\* C6 witness: FindKeyByAppName ran on a list with two keys of that name.
C6_Witness ==
    /\ last.op = "FindKeyByAppName" /\ ListSucceeded /\ Cardinality(Matches) = 2
    /\ last.key # <<>>

\* C7: CreateKey and DeleteKey succeed exactly when the response status is 200
\* or 204, GetKeys succeeds only on a 200 whose body decodes; any other status
\* gives an error carrying the status code and the body text, and no result.
C7_StatusDecidesOutcome ==
    /\ (last.op \in {"CreateKey", "DeleteKey"} /\ Answered) =>
          /\ last.err = NoErr <=> last.env.status \in {200, 204}
          /\ last.env.status \notin {200, 204} =>
                /\ last.err[1].status = last.env.status
                /\ last.err[1].body = last.env.body
    /\ (last.op = "GetKeys" /\ Answered) =>
          /\ last.err = NoErr => (last.env.status = 200 /\ last.env.body = "json")
          /\ last.err = NoErr <=> last.result # <<>>
          /\ last.env.status # 200 =>
                /\ last.err # NoErr /\ last.result = <<>>
                /\ last.err[1].status = last.env.status
                /\ last.err[1].body = last.env.body

\* C7 witness: CreateKey was answered 201 and returned an error.
C7_Witness ==
    last.op = "CreateKey" /\ Answered /\ last.env.status = 201 /\ last.err # NoErr

\* The last NewClientWithAuth call met one of the failure conditions: request
\* not built or not sent, status other than 200, undecodable body, empty token.
AuthMustFail ==
    \/ ~ValidURL(authOut.endpoint)
    \/ authOut.env.transport = "fail"
    \/ authOut.env.status # 200
    \/ authOut.env.body # "json"
    \/ authOut.tok = ""

\* C8: NewClientWithAuth returns an error and no client when the request
\* cannot be built or sent, the status is not 200, the body does not decode as
\* JSON or the access token is empty, and a client and no error otherwise;
\* never both, never neither.
C8_AuthClientXorError ==
    authOut.op = "NewClientWithAuth" =>
        /\ AuthMustFail => (authOut.client = <<>> /\ authOut.err # NoErr)
        /\ ~AuthMustFail => (authOut.client # <<>> /\ authOut.err = NoErr)
        /\ authOut.client = <<>> <=> authOut.err # NoErr
        /\ client = authOut.client

\* C8 witness: a 200 JSON answer with an empty AccessToken was rejected.
C8_Witness ==
    /\ authOut.op = "NewClientWithAuth" /\ ValidURL(authOut.endpoint)
    /\ authOut.env.transport = "ok" /\ authOut.env.status = 200
    /\ authOut.env.body = "json" /\ authOut.tok = "" /\ authOut.err # NoErr

\* C9: after a successful NewClientWithAuth every authorized request of the
\* client carries Authorization: MediaBrowser Token="<t>" with t the
\* AccessToken of the authentication response, and the client keeps the
\* endpoint and that token only, not the username or the password.
C9_RequestsCarryAuthToken ==
    (authOut.op = "NewClientWithAuth" /\ authOut.err = NoErr) =>
        /\ \A i \in 1..Len(last.reqs) : last.reqs[i].auth = <<"Token", authOut.tok>>
        /\ DOMAIN client[1] = {"endpoint", "accessToken"}
        /\ client[1].accessToken = authOut.tok
        /\ client[1].accessToken \notin {"user", "pass"}

\* C9 witness: an authenticated client sent a DELETE request.
C9_Witness ==
    /\ authOut.op = "NewClientWithAuth" /\ authOut.err = NoErr
    /\ last.op = "DeleteKey" /\ Len(last.reqs) = 1

IsSingleCall == last.op \in {"GetKeys", "CreateKey", "DeleteKey"}

\* C10 (as claimed): each call of GetKeys, CreateKey or DeleteKey sends
\* exactly one HTTP request.
C10_ExactlyOneRequest ==
    IsSingleCall => Len(last.reqs) = 1

\* C10 (amended): each call of GetKeys, CreateKey or DeleteKey sends at most
\* one HTTP request, exactly one unless the request cannot be built and then
\* none; a 401 or any other failure is returned to the caller with no retry
\* and no new authentication.
C10_AtMostOneRequestNoRetry ==
    IsSingleCall =>
        /\ Len(last.reqs) <= 1
        /\ Len(last.reqs) = 1 <=> ValidURL(client[1].endpoint)
        /\ \A i \in 1..Len(last.reqs) :
              /\ last.reqs[i].path # "/Users/AuthenticateByName"
              /\ last.reqs[i].auth[1] = "Token"
        /\ (~Answered \/ last.env.status \notin {200, 204}) => last.err # NoErr
        /\ (Answered /\ last.env.status = 401) => last.err[1].status = 401

\* C10 witness: GetKeys was answered 401 and returned the error after one request.
C10_Witness ==
    /\ last.op = "GetKeys" /\ Answered /\ last.env.status = 401
    /\ Len(last.reqs) = 1 /\ last.err # NoErr


\* ------------------------------------------- claims on the client (C11-C14)
\* C11: the client is read-only after construction: after any sequence of
\* GetKeys, GetKey, FindKeyByAppName, CreateKey and DeleteKey calls, successful
\* or failed, its endpoint and access token are the ones construction set.
C11_ClientReadOnly ==
    (client # <<>> /\ last.op # "none") =>
        /\ client = authOut.client
        /\ client[1].accessToken = authOut.tok
        /\ client[1].endpoint = TrimSuffix(authOut.endpoint)

\* C11 witness: a DeleteKey of the constructed client changed the server.
C11_Witness ==
    /\ client # <<>> /\ last.op = "DeleteKey"
    /\ Served(last.reqs, last.env) /\ keys # last.before

\* Every request the constructor and the last operation built.
AllRequests ==
    {authOut.reqs[i] : i \in 1..Len(authOut.reqs)} \cup
    {last.reqs[i] : i \in 1..Len(last.reqs)}

\* C12 (as claimed): for every configured endpoint the constructors strip a
\* trailing slash exactly once, and in no request URL does the endpoint part
\* end with a slash.
C12_EndpointNeverEndsWithSlash ==
    \A req \in AllRequests :
        req.endpoint = <<>> \/ req.endpoint[Len(req.endpoint)] # "/"

\* C12 (amended): the constructors strip exactly one trailing slash of the
\* configured endpoint, and every request URL starts with that stripped
\* endpoint; it does not end with a slash when the configured endpoint ended
\* with at most one slash.
C12_OneTrailingSlashStripped ==
    LET ep == authOut.endpoint
        slash == Len(ep) > 0 /\ ep[Len(ep)] = "/"
        stripped(x) == IF slash THEN x \o <<"/">> = ep ELSE x = ep
        twice == Len(ep) > 1 /\ ep[Len(ep)] = "/" /\ ep[Len(ep) - 1] = "/"
    IN  /\ client # <<>> => stripped(client[1].endpoint)
        /\ \A req \in AllRequests :
              /\ stripped(req.endpoint)
              /\ ~twice => (req.endpoint = <<>> \/ req.endpoint[Len(req.endpoint)] # "/")

\* C12 witness: a client configured with a trailing slash sent a request to
\* the endpoint without it.
C12_Witness ==
    /\ authOut.endpoint = <<"h", "/">>
    /\ last.op = "CreateKey" /\ Len(last.reqs) = 1
    /\ last.reqs[1].endpoint = <<"h">>

\* C13: in the authentication header each of Client, Device, DeviceId and
\* Version is the configuration's value when the configuration is present
\* and that field is non-empty, and the default otherwise; for each of the 16
\* subsets of overrides only the overridden fields differ from the defaults.
C13_HeaderFieldsOverrideOrDefault ==
    LET cfg == authOut.config
        Field(value, default) == IF cfg # <<>> /\ value # "" THEN value ELSE default
    IN  \A i \in 1..Len(authOut.reqs) :
           LET h == authOut.reqs[i].auth[2]
           IN  /\ authOut.reqs[i].auth[1] = "Client"
               /\ h.Client = IF cfg = <<>> THEN "Terraform"
                              ELSE Field(cfg[1].ClientName, "Terraform")
               /\ h.Device = IF cfg = <<>> THEN "Terraform Provider"
                              ELSE Field(cfg[1].DeviceName, "Terraform Provider")
               /\ h.DeviceId = IF cfg = <<>> THEN "terraform-provider-jellyfin"
                                ELSE Field(cfg[1].DeviceID, "terraform-provider-jellyfin")
               /\ h.Version = IF cfg = <<>> THEN "1.0.0"
                               ELSE Field(cfg[1].ClientVersion, "1.0.0")

\* C13 witness: a configuration overriding the device name and the version
\* only was sent with the default client name and device id.
C13_Witness ==
    /\ authOut.op = "NewClientWithAuthAndConfig" /\ Len(authOut.reqs) = 1
    /\ authOut.config # <<>>
    /\ authOut.config[1] = [ClientName |-> "", DeviceName |-> "MyDevice",
                             DeviceID |-> "", ClientVersion |-> "2.0.0"]
    /\ authOut.reqs[1].auth[2] = [Client |-> "Terraform", Device |-> "MyDevice",
                                   DeviceId |-> "terraform-provider-jellyfin",
                                   Version |-> "2.0.0"]

\* C14: percent-encoding round-trips: for every app name the query parameter
\* app the server decodes from CreateKey's request is the app name, and for
\* every access token the path of DeleteKey's request has one segment after
\* /Auth/Keys/ whose decoding is the token.
C14_EscapingRoundTrips ==
    /\ (last.op = "CreateKey" /\ last.reqs # <<>>) =>
          /\ ServerQueryApp(last.reqs[1].arg) = last.arg
          /\ Served(last.reqs, last.env) => keys[1].AppName = last.arg
    /\ (last.op = "DeleteKey" /\ last.reqs # <<>>) =>
          ServerPathToken(last.reqs[1].arg) = <<last.arg>>

\* C14 witness: the server holds a key created with the name " &/", and a
\* DELETE for the same string as a token was sent as one path segment.
C14_Witness ==
    /\ keys # <<>> /\ keys[1].AppName = <<" ", "&", "/">>
    /\ last.op = "DeleteKey" /\ last.arg = <<" ", "&", "/">>
    /\ last.reqs # <<>> /\ last.reqs[1].arg = <<"%", "2", "0", "&", "%", "2", "F">>

\* ---------------------------------- claims on the provider layer (C15-C20)
\* The lookup of an exchange e succeeded: the list came back and decoded.
LookupSucceeded(e) ==
    ValidURL(client[1].endpoint) /\ e.transport = "ok" /\ e.status = 200 /\ e.body = "json"

\* Positions of list ks whose field has the value.
Hits(ks, field, value) == {i \in 1..Len(ks) : ks[i][field] = value}

\* C15: resource Read: when the lookup by the state's id succeeds and finds
\* no key, the resource is removed from state and no error is reported; when
\* the lookup fails, an error is reported and the state is neither removed
\* nor overwritten; when the key is found, id, app_name, access_token and
\* date_created of the state are set from the found key.
C15_ResourceReadOutcome ==
    \A r \in Resources :
        rlast[r].op = "Read" =>
            LET id == ValueString(rlast[r].prior[1].id)
                hits == Hits(rlast[r].before, "AccessToken", id)
            IN  IF ~LookupSucceeded(rlast[r].env)
                THEN /\ rlast[r].diag # <<>>
                     /\ rout[r].state = rlast[r].prior /\ rout[r].state # <<>>
                ELSE IF hits = {}
                THEN rout[r].state = <<>> /\ rlast[r].diag = <<>>
                ELSE /\ rlast[r].diag = <<>>
                     /\ \E i \in hits :
                           /\ \A j \in hits : i <= j
                           /\ rout[r].state # <<>>
                           /\ State(r).id = rlast[r].before[i].AccessToken
                           /\ State(r).app_name = rlast[r].before[i].AppName
                           /\ State(r).access_token = rlast[r].before[i].AccessToken
                           /\ State(r).date_created = rlast[r].before[i].DateCreated

\* C15 witness: the created resource was removed from state by a Read that
\* found its key gone, and a failed Read left the imported resource's state.
C15_Witness ==
    /\ rpc["r1"] = "gone" /\ rlast["r1"].op = "Read" /\ rlast["r1"].diag = <<>>
    /\ rlast["r1"].prior # <<>> /\ rout["r1"].state = <<>>
    /\ rlast["r2"].op = "Read" /\ rlast["r2"].diag # <<>>
    /\ rout["r2"].state = rlast["r2"].prior /\ rout["r2"].state # <<>>

\* The configuration of the last data-source Read and what it looked up.
DataConfig == ds.config[1]
HasAppName == DataConfig.app_name # Null
HasAccessToken == DataConfig.access_token # Null
DataHits ==
    IF HasAccessToken
    THEN Hits(ds.before, "AccessToken", DataConfig.access_token)
    ELSE Hits(ds.before, "AppName", DataConfig.app_name)

\* C16: data-source Read: when the lookup succeeds and finds no key, the error
\* "API Key Not Found" is reported and no state is set; absence never becomes
\* an empty or partial result.
C16_DataSourceNotFoundIsError ==
    (ds.op = "Read" /\ (HasAppName \/ HasAccessToken)
         /\ LookupSucceeded(ds.env) /\ DataHits = {}) =>
        /\ ds.state = <<>>
        /\ Len(ds.diag) = 1 /\ ds.diag[1].summary = "API Key Not Found"

\* C16 witness: a lookup by app name on a server holding keys with other
\* names ended in "API Key Not Found".
C16_Witness ==
    /\ ds.op = "Read" /\ HasAppName /\ ~HasAccessToken
    /\ LookupSucceeded(ds.env) /\ Len(ds.before) > 0 /\ DataHits = {}
    /\ ds.state = <<>> /\ ds.diag # <<>>

MissingAttribute ==
    "Either 'app_name' or 'access_token' must be provided to look up an API key."

\* C17 (as claimed): a data-source read is accepted only when exactly one of
\* app_name and access_token is supplied: with neither it reports "Either
\* 'app_name' or 'access_token' must be provided" and sends no request, and a
\* configuration supplying both is not accepted as a lookup either.
C17_ExactlyOneAccepted ==
    ds.op = "Read" =>
        /\ (~HasAppName /\ ~HasAccessToken) =>
              /\ Len(ds.diag) = 1 /\ ds.diag[1].detail = MissingAttribute
              /\ ds.reqs = <<>> /\ ds.state = <<>>
        /\ (HasAppName /\ HasAccessToken) =>
              ds.diag # <<>> /\ ds.reqs = <<>> /\ ds.state = <<>>

\* C17 (amended): a data-source read is accepted when at least one of app_name
\* and access_token is supplied: with neither it reports "Either 'app_name'
\* or 'access_token' must be provided" and sends no request; with one or both
\* it sends the lookup and never reports that error, and a configuration
\* supplying both is looked up by its access_token.
C17_AtLeastOneAccepted ==
    ds.op = "Read" =>
        /\ (~HasAppName /\ ~HasAccessToken) =>
              /\ Len(ds.diag) = 1 /\ ds.diag[1].detail = MissingAttribute
              /\ ds.reqs = <<>> /\ ds.state = <<>>
        /\ (HasAppName \/ HasAccessToken) =>
              /\ Len(ds.reqs) = 1
              /\ \A i \in 1..Len(ds.diag) : ds.diag[i].detail # MissingAttribute
        /\ (HasAppName /\ HasAccessToken /\ LookupSucceeded(ds.env)) =>
              IF DataHits = {} THEN ds.state = <<>> /\ ds.diag # <<>>
              ELSE /\ ds.diag = <<>> /\ ds.state # <<>>
                   /\ ds.state[1].access_token = DataConfig.access_token

\* C17 witness: a configuration supplying both attributes, whose app_name is
\* not the name of the token's key, was looked up and set the state.
C17_Witness ==
    /\ ds.op = "Read" /\ HasAppName /\ HasAccessToken
    /\ ds.state # <<>> /\ ds.diag = <<>>
    /\ ds.state[1].app_name # DataConfig.app_name

\* What Configure works with: the configuration's value when non-empty, else
\* the environment variable's.
Chosen(attr, variable) ==
    IF prov.config[1][attr] \notin {Null, <<>>} THEN prov.config[1][attr]
    ELSE prov.environ[1][variable]
ChosenEndpoint == Chosen("endpoint", "JELLYFIN_ENDPOINT")
ChosenUsername == Chosen("username", "JELLYFIN_USERNAME")
ChosenPassword == Chosen("password", "JELLYFIN_PASSWORD")
AnyMissing == <<>> \in {ChosenEndpoint, ChosenUsername, ChosenPassword}
\* The authentication exchange of Configure yields a token.
AuthSucceeds ==
    /\ ValidURL(ChosenEndpoint) /\ prov.env.transport = "ok" /\ prov.env.status = 200
    /\ prov.env.body = "json" /\ prov.tok # ""

\* C18 (as claimed): Configure takes endpoint, username and password from the
\* configuration when non-empty and else from JELLYFIN_ENDPOINT,
\* JELLYFIN_USERNAME, JELLYFIN_PASSWORD; if any is still empty it reports an
\* error, sends no authentication request and hands out no client; otherwise
\* it authenticates exactly once and hands the same client to resources and
\* data sources.
C18_ConfigureAuthenticatesAndHandsClient ==
    prov.op = "Configure" =>
        IF AnyMissing
        THEN /\ prov.diag # <<>> /\ prov.reqs = <<>>
             /\ prov.ResourceData = <<>> /\ prov.DataSourceData = <<>>
        ELSE /\ Len(prov.reqs) = 1
             /\ prov.reqs[1].arg = <<ChosenUsername, ChosenPassword>>
             /\ prov.ResourceData # <<>>
             /\ prov.ResourceData = prov.DataSourceData

\* C18 (amended): Configure takes endpoint, username and password from the
\* configuration when non-empty and else from the environment; if any is
\* still empty it reports an error, sends no authentication request and hands
\* out no client; otherwise it calls NewClientWithAuth once with the chosen
\* values, which sends at most one authentication request, and hands the same
\* client to resources and data sources when authentication succeeds, and an
\* error and no client when it fails.
C18_ConfigureSourcesAndClient ==
    prov.op = "Configure" =>
        IF AnyMissing
        THEN /\ prov.diag # <<>> /\ prov.reqs = <<>>
             /\ prov.ResourceData = <<>> /\ prov.DataSourceData = <<>>
             /\ client = <<>>
        ELSE /\ Len(prov.reqs) <= 1
             /\ Len(prov.reqs) = 1 <=> ValidURL(ChosenEndpoint)
             /\ \A i \in 1..Len(prov.reqs) :
                   /\ prov.reqs[i].path = "/Users/AuthenticateByName"
                   /\ prov.reqs[i].arg = <<ChosenUsername, ChosenPassword>>
                   /\ prov.reqs[i].endpoint \in {ChosenEndpoint,
                                                 SubSeq(ChosenEndpoint, 1, Len(ChosenEndpoint) - 1)}
             /\ IF AuthSucceeds
                THEN /\ prov.diag = <<>>
                     /\ prov.ResourceData # <<>>
                     /\ prov.ResourceData = prov.DataSourceData
                     /\ prov.ResourceData[1].accessToken = prov.tok
                     /\ client = prov.ResourceData
                     /\ \A i \in 1..Len(ds.reqs) : ds.reqs[i].auth = <<"Token", prov.tok>>
                ELSE /\ prov.diag # <<>>
                     /\ prov.ResourceData = <<>> /\ prov.DataSourceData = <<>>
                     /\ client = <<>>

\* C18 witness: the endpoint came from the configuration, the username from
\* the environment because the configuration's was empty, and the data
\* source sent a request with the client Configure handed out.
C18_Witness ==
    /\ prov.op = "Configure" /\ prov.diag = <<>> /\ prov.ResourceData # <<>>
    /\ prov.config[1].endpoint = <<"h", "/">> /\ prov.config[1].username = <<>>
    /\ prov.reqs[1].arg[1] = <<"e", "u">>
    /\ ds.op = "Read" /\ Len(ds.reqs) = 1

\* C19 (as claimed): every public operation issues at most two sequential
\* network round trips per call, the client operations and the create
\* operation that lists, acts and lists again.
C19_AtMostTwoRoundTrips ==
    /\ Len(last.reqs) <= 2
    /\ \A r \in Resources : Len(rout[r].reqs) <= 2

\* C19 (amended): each call of GetKeys, GetKey, FindKeyByAppName, CreateKey
\* and DeleteKey issues at most one network round trip, and the create
\* operation at most three sequential ones: it lists, acts and lists again,
\* and stops at the first that fails.
C19_OneTripPerCallThreeForCreate ==
    /\ Len(last.reqs) <= 1
    /\ \A r \in Resources :
          LET reqs == rout[r].reqs
              Methods == <<"GET", "POST", "GET">>
          IN  /\ Len(reqs) <= 3
              /\ \A i \in 1..Len(reqs) : reqs[i].method = Methods[i]
              /\ rpc[r] = "done" => Len(reqs) = 3
              /\ (rpc[r] = "err" /\ ValidURL(client[1].endpoint)) => Len(reqs) >= 1

\* C19 witness: a Create ran to its end with three requests.
C19_Witness ==
    /\ rpc["r1"] = "done" /\ Len(rout["r1"].reqs) = 3
    /\ last.op = "FindKeyByAppName" /\ Len(last.reqs) = 1

\* C20: import round-trip: for a key that exists on the server, ImportState
\* with the key's access token as the import id followed by Read yields a
\* state whose id, app_name, access_token and date_created equal those of the
\* state Create produced for that key.
C20_ImportThenReadEqualsCreate ==
    \A r \in Resources, q \in Resources :
        (/\ rpc[r] = "done" /\ rlast[r].op = "none"
         /\ rpc[q] = "imported" /\ rlast[q].op = "Read"
         /\ rlast[q].prior = ImportState(State(r).access_token)
         /\ State(r).access_token \in Tokens(rlast[q].before)
         /\ LookupSucceeded(rlast[q].env)) =>
            /\ rout[q].state # <<>>
            /\ State(q).id = State(r).id
            /\ State(q).app_name = State(r).app_name
            /\ State(q).access_token = State(r).access_token
            /\ State(q).date_created = State(r).date_created

\* C20 witness: a key created by one resource was imported and read by the
\* other, and the two states are equal.
C20_Witness ==
    /\ rpc["r1"] = "done" /\ rlast["r1"].op = "none"
    /\ rpc["r2"] = "imported" /\ rlast["r2"].op = "Read"
    /\ rlast["r2"].prior = ImportState(State("r1").access_token)
    /\ rout["r2"].state = rout["r1"].state

\* ------------------------------- claims on the resource lifecycle (C21-C30)
\* C21: refresh is idempotent: for a resource that Create wrote to state, a
\* Read made while its key is on the server leaves the state (id, app_name,
\* access_token, date_created) as it was, and no Read creates or deletes a key
\* on the server.
C21_RefreshIdempotent ==
    /\ [](\A r \in Resources :
            (/\ rpc[r] \in {"done", "gone"} /\ rlast[r].op = "Read"
             /\ rlast[r].prior[1].id \in Tokens(rlast[r].before)) =>
                rout[r].state = rlast[r].prior)
    /\ [][(\E r \in Resources : rlast'[r] # rlast[r] /\ rlast'[r].op = "Read") =>
              (keys' = keys /\ minted' = minted)]_vars

\* C21 witness: the created resource was read with success while the server
\* held its key after another key, and its state is the one Create wrote.
C21_Witness ==
    /\ rpc["r1"] = "done" /\ rlast["r1"].op = "Read" /\ rlast["r1"].diag = <<>>
    /\ LookupSucceeded(rlast["r1"].env)
    /\ Len(rlast["r1"].before) = 2 /\ keys = rlast["r1"].before
    /\ rout["r1"].state = rlast["r1"].prior
    /\ State("r1") = CreateState(rplan["r1"], keys[1])

\* C22: a change of app_name is never applied to an existing key in place:
\* Update sends no request and only stores the plan as the state, and it is
\* never handed a changed app_name; no key on the server ever changes; a
\* resource whose app_name changed was replaced: the old key was deleted by a
\* DELETE for its token, and the state holds a newly created key with the new
\* name and another token.
C22_NameChangeReplaces ==
    /\ [](\A r \in Resources :
            /\ rlast[r].op = "Update" =>
                  /\ rlast[r].reqs = <<>> /\ rlast[r].diag = <<>>
                  /\ rout[r].state = PlannedState(rlast[r].prior, rplan[r])
                  /\ rplan[r] = rlast[r].prior[1].app_name
            /\ (/\ rpc[r] = "done" /\ rlast[r].op = "Delete"
                /\ State(r).app_name # rlast[r].prior[1].app_name) =>
                  LET old == rlast[r].prior[1]
                  IN  /\ rlast[r].diag = <<>>
                      /\ Len(rlast[r].reqs) = 1
                      /\ rlast[r].reqs[1].method = "DELETE"
                      /\ ServerPathToken(rlast[r].reqs[1].arg) = <<old.access_token>>
                      /\ old.access_token \notin Tokens(keys)
                      /\ State(r).access_token # old.access_token
                      /\ State(r).access_token \notin Tokens(rlast[r].before)
                      /\ State(r).app_name = rplan[r]
                      /\ \E i \in 1..Len(NewItems(r)) :
                            /\ NewItems(r)[i].AccessToken = State(r).access_token
                            /\ NewItems(r)[i].AppName = rplan[r])
    /\ [][\A i \in 1..Len(keys), j \in 1..Len(keys') :
              keys[i].AccessToken = keys'[j].AccessToken => keys[i] = keys'[j]]_vars

\* C22 witness: the resource created as "app" was replaced for the app name
\* "my &" and holds another key, and the imported resource went through Update.
C22_Witness ==
    /\ rpc["r1"] = "done" /\ rlast["r1"].op = "Delete"
    /\ rlast["r1"].prior[1].app_name = <<"a", "p", "p">>
    /\ State("r1").app_name = <<"m", "y", " ", "&">>
    /\ State("r1").access_token # rlast["r1"].prior[1].access_token
    /\ rlast["r2"].op = "Update" /\ rout["r2"].state = rlast["r2"].prior

\* The app names of list ks are pairwise different and so are its tokens.
Distinct(ks) ==
    \A i \in 1..Len(ks), j \in 1..Len(ks) :
        i # j => ks[i].AppName # ks[j].AppName /\ ks[i].AccessToken # ks[j].AccessToken

\* C23: on a key list with pairwise different app names and pairwise
\* different access tokens, FindKeyByAppName(k.AppName) and
\* GetKey(k.AccessToken) both return the record k, for every key k of the
\* list; and a data source looked up by the app name of a created resource
\* whose key is on the list shows the id, app_name, access_token and
\* date_created of that resource.
C23_LookupsAgree ==
    /\ (IsLookup /\ ListSucceeded /\ Distinct(last.before)) =>
          \A i \in 1..Len(last.before) :
              last.arg = last.before[i][LookupField] =>
                  last.err = NoErr /\ last.key = <<APIKey(last.before[i])>>
    /\ \A r \in Resources :
          (/\ rpc[r] = "done" /\ ds.op = "Read" /\ LookupSucceeded(ds.env)
           /\ ~HasAccessToken /\ DataConfig.app_name = State(r).app_name
           /\ Distinct(ds.before) /\ State(r).access_token \in Tokens(ds.before)) =>
              /\ ds.diag = <<>>
              /\ ds.state = rout[r].state

\* C23 witness: the server holds the resource's key and another key with
\* another name; the data source read by the resource's app name shows the
\* resource's state, and GetKey of the second key's token returned it.
C23_Witness ==
    /\ rpc["r1"] = "done" /\ ds.op = "Read" /\ LookupSucceeded(ds.env)
    /\ Len(ds.before) = 2 /\ Distinct(ds.before)
    /\ DataConfig.app_name = State("r1").app_name
    /\ ds.state = rout["r1"].state
    /\ last.op = "GetKey" /\ ListSucceeded /\ last.before = ds.before
    /\ last.key = <<APIKey(last.before[2])>>

\* C24: when the caller's context is already cancelled, so that the HTTP
\* client returns an error instead of a response, every client operation
\* (NewClientWithAuth, GetKeys, GetKey, FindKeyByAppName, CreateKey,
\* DeleteKey) returns an error of the request-failure kind and no result, and
\* the set of keys on the server is unchanged.
C24_CancelledContextFails ==
    /\ []((last.op # "none" /\ last.env = FailEnv) =>
            /\ last.err # NoErr
            /\ last.err[1].kind \in {"execute request", "create request"}
            /\ last.key = <<>> /\ last.result = <<>>)
    /\ []((authOut.op \in {"NewClientWithAuth", "NewClientWithAuthAndConfig"}
               /\ authOut.env = FailEnv) =>
            /\ authOut.err # NoErr
            /\ authOut.err[1].kind \in {"authenticate", "create auth request"}
            /\ authOut.client = <<>> /\ client = <<>>)
    /\ [][((last' # last /\ last'.env = FailEnv)
              \/ (authOut' # authOut /\ authOut'.env = FailEnv)) =>
             (keys' = keys /\ minted' = minted)]_vars

\* C24 witness: DeleteKey for a key the server holds ended in the
\* request-failure error, and the server still holds the key.
C24_Witness ==
    /\ last.op = "DeleteKey" /\ last.env = FailEnv
    /\ last.err # NoErr /\ last.err[1].kind = "execute request"
    /\ last.arg \in Tokens(last.before) /\ keys = last.before

\* C25: the provider can be configured with only an endpoint and an API key
\* (here through JELLYFIN_API_KEY): with these two set, no username and no
\* password, and a server that answers, Configure reports no error and hands
\* out a client.
C25_ApiKeyConfigures ==
    (/\ prov.op = "Configure"
     /\ ChosenEndpoint # <<>> /\ ValidURL(ChosenEndpoint)
     /\ prov.environ[1].JELLYFIN_API_KEY # <<>>
     /\ ChosenUsername = <<>> /\ ChosenPassword = <<>>
     /\ prov.env.transport = "ok" /\ prov.env.status = 200 /\ prov.env.body = "json"
     /\ prov.tok # "") =>
        /\ prov.diag = <<>>
        /\ prov.ResourceData # <<>> /\ prov.DataSourceData # <<>>

\* C26: resource Create issues its requests in the order list, create, list:
\* a client call is made only after every earlier call of the same Create
\* returned no error, so CreateKey is sent only after the snapshot GetKeys
\* succeeded and the second GetKeys only after CreateKey succeeded; when the
\* snapshot GetKeys or CreateKey fails, the Create ends there with an error
\* and no state.
C26_CreateOrder ==
    \A r \in Resources :
        LET reqs == rout[r].reqs
            errs == rout[r].errs
            Methods == <<"GET", "POST", "GET">>
        IN  /\ Len(errs) <= 3 /\ Len(reqs) <= Len(errs)
            /\ \A i \in 1..Len(reqs) : reqs[i].method = Methods[i]
            /\ ValidURL(client[1].endpoint) => Len(reqs) = Len(errs)
            /\ \A i \in 1..(Len(errs) - 1) : errs[i] = NoErr
            /\ (Len(errs) \in {1, 2} /\ errs[Len(errs)] # NoErr) =>
                  /\ rpc[r] = "err" /\ rout[r].state = <<>> /\ rout[r].diag # <<>>
                  /\ rout[r].newItems = <<>>
            /\ rout[r].state # <<>> =>
                  Len(errs) = 3 /\ \A i \in 1..3 : errs[i] = NoErr

\* C26 witness: one Create stopped at a failed CreateKey after two requests,
\* another ran through list, create, list and wrote its state.
C26_Witness ==
    /\ rpc["r1"] = "err" /\ Len(rout["r1"].reqs) = 2
    /\ rout["r1"].reqs[2].method = "POST" /\ rout["r1"].errs[2] # NoErr
    /\ rout["r1"].state = <<>>
    /\ rpc["r2"] = "done" /\ Len(rout["r2"].reqs) = 3 /\ rout["r2"].state # <<>>

\* C27: whenever resource Create ends with an error, the server holds no key
\* created by that call: a failed Create leaves no key that is on the server
\* but not in state.
C27_FailedCreateLeavesNoKey ==
    \A r \in Resources : rpc[r] = "err" => rmine[r] \notin Tokens(keys)

\* C28 (as claimed): in every resource state reachable by any sequence of
\* Create, ImportState, Read and Update, the id attribute equals the
\* access_token attribute.
C28_IdEqualsAccessToken ==
    \A r \in Resources : rout[r].state # <<>> => State(r).id = State(r).access_token

\* C28 (amended): in every resource state written by Create, by a Read that
\* found the key, or by Update of such a state, id equals access_token and is
\* not null, and Delete sends the DELETE for that value; the state ImportState
\* produces holds the import id in id and a null access_token until a Read
\* has found the key.
C28_IdEqualsAccessTokenOnceRead ==
    \A r \in Resources :
        /\ rout[r].state # <<>> =>
              IF rpc[r] = "imported" /\ State(r).access_token = Null
              THEN /\ State(r).id # Null
                   /\ rlast[r].op \in {"ImportState", "Read"}
                   /\ rlast[r].op = "Read" => rlast[r].diag # <<>>
              ELSE State(r).id = State(r).access_token /\ State(r).id # Null
        /\ rlast[r].op = "Delete" =>
              /\ rlast[r].prior[1].id = rlast[r].prior[1].access_token
              /\ Len(rlast[r].reqs) = 1
              /\ ServerPathToken(rlast[r].reqs[1].arg) = <<rlast[r].prior[1].id>>

\* C28 witness: the created resource went through Update and the imported
\* one through a Read that found its key, both with id = access_token.
C28_Witness ==
    /\ rpc["r1"] = "done" /\ rlast["r1"].op = "Update"
    /\ State("r1").id = State("r1").access_token
    /\ rpc["r2"] = "imported" /\ rlast["r2"].op = "Read" /\ rlast["r2"].diag = <<>>
    /\ rlast["r2"].prior[1].access_token = Null
    /\ State("r2").id = State("r2").access_token /\ State("r2").id # Null

\* The DeleteKey call of r's last Delete succeeded.
DeleteAnswered(r) ==
    rlast[r].env.transport = "ok" /\ rlast[r].env.status \in {200, 204}

\* C29: resource Delete sends exactly one request, a DELETE for the access
\* token held in state, and no list request; when it succeeds the resource
\* leaves the state and the server loses at most that one key, every other
\* key staying as it was; when DeleteKey fails, Delete reports an error, the
\* state is kept and the server's keys are unchanged.
C29_DeleteFrame ==
    /\ [](\A r \in Resources :
            rlast[r].op = "Delete" =>
                /\ Len(rlast[r].reqs) = 1
                /\ rlast[r].reqs[1].method = "DELETE"
                /\ rlast[r].reqs[1].path = "/Auth/Keys/"
                /\ ServerPathToken(rlast[r].reqs[1].arg) = <<rlast[r].prior[1].access_token>>
                /\ rlast[r].diag = <<>> <=> DeleteAnswered(r)
                /\ rlast[r].diag # <<>> =>
                      /\ rlast[r].diag[1].detail = "Unable to delete API key"
                      /\ rout[r].state = rlast[r].prior)
    /\ [][\A r \in Resources :
              (rlast'[r] # rlast[r] /\ rlast'[r].op = "Delete") =>
                  /\ minted' = minted
                  /\ IF rlast'[r].diag = <<>>
                     THEN /\ keys' = Remove(keys, rout[r].state[1].access_token)
                          /\ rout'[r].state = <<>>
                     ELSE keys' = keys]_vars

\* C29 witness: a Delete succeeded on a server holding the resource's key and
\* another one; the other key is what the server still holds.
C29_Witness ==
    /\ rlast["r1"].op = "Delete" /\ rlast["r1"].diag = <<>>
    /\ Len(rlast["r1"].before) = 2
    /\ rlast["r1"].prior[1].access_token = rlast["r1"].before[1].AccessToken
    /\ keys = <<rlast["r1"].before[2]>>
    /\ rout["r1"].state = <<>>

\* C30: when access_token is supplied to the data source, the key is looked
\* up by access token and a supplied app_name plays no part in choosing it;
\* lookup by app name happens only when access_token is absent; in both cases
\* the state's id, app_name, access_token and date_created are those of the
\* found key, the first one on the list that matches.
C30_AccessTokenTakesPrecedence ==
    (ds.op = "Read" /\ (HasAppName \/ HasAccessToken) /\ LookupSucceeded(ds.env)) =>
        LET hits == IF HasAccessToken
                    THEN Hits(ds.before, "AccessToken", DataConfig.access_token)
                    ELSE Hits(ds.before, "AppName", DataConfig.app_name)
        IN  /\ Len(ds.reqs) = 1 /\ ds.reqs[1].method = "GET"
            /\ hits = {} => ds.state = <<>>
            /\ hits # {} =>
                  \E i \in hits :
                      /\ \A j \in hits : i <= j
                      /\ ds.diag = <<>>
                      /\ ds.state = <<[id |-> ds.before[i].AccessToken,
                                       app_name |-> ds.before[i].AppName,
                                       access_token |-> ds.before[i].AccessToken,
                                       date_created |-> ds.before[i].DateCreated]>>

\* C30 witness: both attributes were supplied, app_name naming the first key
\* of the list and access_token the second, which has another name; the
\* state shows the second key.
C30_Witness ==
    /\ ds.op = "Read" /\ HasAppName /\ HasAccessToken /\ LookupSucceeded(ds.env)
    /\ Len(ds.before) = 2
    /\ ds.before[1].AppName = DataConfig.app_name
    /\ ds.before[2].AccessToken = DataConfig.access_token
    /\ ds.before[2].AppName # DataConfig.app_name
    /\ ds.state # <<>> /\ ds.state[1].access_token = DataConfig.access_token
    /\ ds.state[1].app_name = ds.before[2].AppName

====
